---- MODULE Spec2Model ----
\* State-machine model of geo-audit: the check-and-score engine
\* (models.py, auditor.py, checks/*) and the brand-visibility runner
\* (tester/runner.py).
EXTENDS Integers, Sequences, FiniteSets, TLC

\* ---------------------------------------------------------------------
\* Python float arithmetic (IEEE-754 binary64, round-half-even), as used by
\* AuditResult.total_score: int((total / max_total) * 100).
\* A positive float 1.f * 2^e is [frac |-> the 52 bits of f as FracDigits
\* digits of DigitBits bits, most significant first, e |-> e].
\* ---------------------------------------------------------------------

\* Width of one digit of the fraction: the 52 fraction bits are FracDigits
\* digits of DigitBits bits each.
DigitBits == 13

FracDigits == 4

RECURSIVE Pow2(_)
Pow2(n) == IF n = 0 THEN 1 ELSE 2 * Pow2(n - 1)

Base == Pow2(DigitBits)

\* Largest k >= 0 with b * 2^k <= a (for a >= b).
RECURSIVE ExpUp(_, _)
ExpUp(a, b) == IF 2 * b <= a THEN 1 + ExpUp(a, 2 * b) ELSE 0

\* Smallest k >= 0 with a * 2^k >= b.
RECURSIVE ExpDown(_, _)
ExpDown(a, b) == IF a >= b THEN 0 ELSE 1 + ExpDown(2 * a, b)

\* Number of binary digits of n > 0.
RECURSIVE BitLen(_)
BitLen(n) == IF n = 0 THEN 0 ELSE 1 + BitLen(n \div 2)

\* The first n digits (base Base) of r/b for r < b, and the remainder.
RECURSIVE DivDigits(_, _, _)
DivDigits(r, b, n) ==
    IF n = 0 THEN [digits |-> <<>>, rem |-> r]
    ELSE LET v    == r * Base
             rest == DivDigits(v % b, b, n - 1)
         IN  [digits |-> <<v \div b>> \o rest.digits, rem |-> rest.rem]

\* digits + 1 in the last place, as [digits, carry].
RECURSIVE IncDigits(_)
IncDigits(ds) ==
    IF ds = <<>> THEN [digits |-> <<>>, carry |-> 1]
    ELSE LET rest == IncDigits(Tail(ds))
             v    == Head(ds) + rest.carry
         IN  [digits |-> <<v % Base>> \o rest.digits, carry |-> v \div Base]

\* Round 1.frac * 2^e to nearest, ties to even, given the first dropped bit
\* (guard) and whether any later dropped bit is set (sticky).
RoundEven(frac, guard, sticky, e) ==
    LET up  == guard = 1 /\ (sticky \/ frac[FracDigits] % 2 = 1)
        inc == IncDigits(frac)
    IN  IF ~up THEN [frac |-> frac, e |-> e]
        ELSE IF inc.carry = 1
             THEN [frac |-> [i \in 1..FracDigits |-> 0], e |-> e + 1]
             ELSE [frac |-> inc.digits, e |-> e]

\* a / b for integers a > 0, b > 0: Python's true division, correctly rounded.
FloatDiv(a, b) ==
    LET up == IF a >= b THEN ExpUp(a, b) ELSE 0
        dn == IF a >= b THEN 0 ELSE ExpDown(a, b)
        n  == a * Pow2(dn)
        d  == b * Pow2(up)
        q  == DivDigits(n - d, d, FracDigits)
    IN  RoundEven(q.digits, (2 * q.rem) \div d, (2 * q.rem) % d # 0, up - dn)

\* digits times the small integer c, as [digits, carry].
RECURSIVE MulDigits(_, _)
MulDigits(ds, c) ==
    IF ds = <<>> THEN [digits |-> <<>>, carry |-> 0]
    ELSE LET rest == MulDigits(Tail(ds), c)
             v    == Head(ds) * c + rest.carry
         IN  [digits |-> <<v % Base>> \o rest.digits, carry |-> v \div Base]

\* x * c for a float x and an integer 1 <= c < Base, correctly rounded.
FloatMul(x, c) ==
    LET p    == MulDigits(x.frac, c)
        top  == c + p.carry
        s    == BitLen(top) - 1
        prev == [i \in 1..FracDigits |-> IF i = 1 THEN top ELSE p.digits[i - 1]]
        frac == [i \in 1..FracDigits |->
                    (prev[i] % Pow2(s)) * Pow2(DigitBits - s) + p.digits[i] \div Pow2(s)]
        last == p.digits[FracDigits]
    IN  IF s = 0 THEN [frac |-> p.digits, e |-> x.e]
        ELSE RoundEven(frac, (last \div Pow2(s - 1)) % 2,
                       last % Pow2(s - 1) # 0, x.e + s)

\* int(x): truncation of a positive float below 2^(2 * DigitBits).
FloatInt(x) ==
    IF x.e < 0 THEN 0
    ELSE IF x.e <= DigitBits
         THEN (Base + x.frac[1]) \div Pow2(DigitBits - x.e)
         ELSE ((Base + x.frac[1]) * Base + x.frac[2]) \div Pow2(2 * DigitBits - x.e)

\* int((total / max_total) * 100) as Python evaluates it.
PercentInt(total, max_total) ==
    IF total = 0 THEN 0 ELSE FloatInt(FloatMul(FloatDiv(total, max_total), 100))

\* ---------------------------------------------------------------------
\* models.py: Severity, Finding, CheckResult, AuditResult
\* ---------------------------------------------------------------------

None == "None"

PASS == "pass"

INFO == "info"

WARNING == "warning"

ERROR == "error"

Severity == {PASS, INFO, WARNING, ERROR}

\* Finding(check, message, severity, details, fix_hint, impact).  message is
\* the fixed part of the text; details holds the names a finding lists (the
\* blocked crawlers, the missing fields) and is {} otherwise.
Finding(check, message, severity, details, fix_hint, impact) ==
    [check |-> check, message |-> message, severity |-> severity,
     details |-> details, fix_hint |-> fix_hint, impact |-> impact]

\* impact: int = 1
DefaultImpact == 1

\* A finding with no fix_hint and the default impact.
Plain(check, message, severity) ==
    Finding(check, message, severity, {}, None, DefaultImpact)

\* A finding that should carry a fix_hint and carries none.
FixWithoutHint(check, message, severity, impact) ==
    Finding(check, message, severity, {}, None, impact)

\* A finding with a fix_hint.
Fix(check, message, severity, impact) ==
    Finding(check, message, severity, {}, "hint", impact)

CheckResultLowMax(name, score, max_score, findings) ==
    [name |-> name, score |-> score, max_score |-> max_score - 5, findings |-> findings]

CheckResult(name, score, max_score, findings) ==
    [name |-> name, score |-> score, max_score |-> max_score, findings |-> findings]

AuditResult(url, final_url, checks, error) ==
    [url |-> url, final_url |-> final_url, checks |-> checks, error |-> error]

\* Python truthiness of an Optional[str]: None and "" are false.
Truthy(s) == s # None /\ s # ""

RECURSIVE SumOver(_, _)
SumOver(s, field) ==
    IF s = <<>> THEN 0 ELSE s[1][field] + SumOver(Tail(s), field)

\* AuditResult.total_score
total_score(self) ==
    IF self.checks = <<>> THEN 0
    ELSE LET total     == SumOver(self.checks, "score")
             max_total == SumOver(self.checks, "max_score")
         IN  IF max_total > 0 THEN PercentInt(total, max_total) ELSE 0

IsFixableAnySeverity(finding) == Truthy(finding.fix_hint)

\* The filter of quick_wins on one finding.
IsFixable(finding) ==
    finding.severity \in {ERROR, WARNING} /\ Truthy(finding.fix_hint)

\* The nested loops of quick_wins: findings in check order, then finding order.
RECURSIVE AllFindings(_)
AllFindings(checks) ==
    IF checks = <<>> THEN <<>>
    ELSE checks[1].findings \o AllFindings(Tail(checks))

Reverse(s) == [i \in 1..Len(s) |-> s[Len(s) + 1 - i]]

\* Insert x into the ascending list s behind every element whose key is not
\* larger (the stable insertion step of list.sort).
RECURSIVE InsertByImpact(_, _)
InsertByImpact(s, x) ==
    IF s = <<>> THEN <<x>>
    ELSE IF s[1].impact <= x.impact
         THEN <<s[1]>> \o InsertByImpact(Tail(s), x)
         ELSE <<x>> \o s

RECURSIVE SortAscending(_)
SortAscending(s) ==
    IF s = <<>> THEN <<>>
    ELSE InsertByImpact(SortAscending(SubSeq(s, 1, Len(s) - 1)), s[Len(s)])

SortedUnstable(xs) == Reverse(SortAscending(xs))

\* sorted(xs, key=lambda f: f.impact, reverse=True): CPython reverses the
\* list, sorts it ascending (stable) and reverses it again.
SortedByImpactDesc(xs) == Reverse(SortAscending(Reverse(xs)))

QuickWinLimit == 5

\* AuditResult.quick_wins
quick_wins(self) ==
    LET sorted == SortedByImpactDesc(SelectSeq(AllFindings(self.checks), IsFixable))
    IN  SubSeq(sorted, 1, IF Len(sorted) < QuickWinLimit THEN Len(sorted) ELSE QuickWinLimit)

\* ---------------------------------------------------------------------
\* HTTP responses of the auxiliary fetches.  A fetch either raises
\* httpx.RequestError (TransportError) or returns [status, ctype, body].
\* ---------------------------------------------------------------------

TransportError == [raised |-> TRUE, status |-> 0, ctype |-> "", body |-> <<>>]

Response(status, ctype, body) ==
    [raised |-> FALSE, status |-> status, ctype |-> ctype, body |-> body]

\* content-type values for which .startswith("text/") holds
TextTypes == {"text/plain", "text/xml"}

\* content-type values for which "xml" in content-type holds
XmlTypes == {"application/xml", "text/xml"}

\* ---------------------------------------------------------------------
\* checks/llms_txt.py
\* ---------------------------------------------------------------------

\* A body is a sequence of lines: "blank" (whitespace only), "text", or
\* "header" (a line holding '#').
RECURSIVE LStrip(_)
LStrip(lines) ==
    IF lines # <<>> /\ lines[1] = "blank" THEN LStrip(Tail(lines)) ELSE lines

\* str.strip() on the body: leading and trailing blank lines go.
Strip(lines) == Reverse(LStrip(Reverse(LStrip(lines))))

\* len(basic_content.strip().split("\n")): "".split("\n") is [""].
SplitLineCount(lines) ==
    IF Strip(lines) = <<>> THEN 1 ELSE Len(Strip(lines))

HasHash(lines) == \E i \in 1..Len(lines) : lines[i] = "header"

IsTextFile(resp) ==
    ~resp.raised /\ resp.status = 200 /\ resp.ctype \in TextTypes

check_llms_txt(llms, full) ==
    LET has_basic == IsTextFile(llms)
        has_full  == IsTextFile(full)
        long      == has_basic /\ SplitLineCount(llms.body) >= 3
        f_basic   ==
            IF ~has_basic THEN <<>>
            ELSE (IF ~long
                  THEN <<Fix("llms_txt", "llms.txt exists but is very short", WARNING, 6)>>
                  ELSE <<Plain("llms_txt", "llms.txt found with good content", PASS)>>)
                 \o (IF ~HasHash(llms.body)
                     THEN <<Fix("llms_txt", "llms.txt lacks markdown headers", INFO, 3)>>
                     ELSE <<>>)
        f_full    ==
            IF has_full
            THEN <<Plain("llms_txt", "llms-full.txt found (extended version)", PASS)>>
            ELSE <<>>
        f_none    ==
            IF ~has_basic /\ ~has_full
            THEN <<Fix("llms_txt", "No llms.txt file found", ERROR, 9)>>
            ELSE <<>>
        score     == (IF has_basic THEN 15 ELSE 0) + (IF long THEN 5 ELSE 0)
                     + (IF has_full THEN 5 ELSE 0)
    IN  CheckResult("llms.txt", score, 25, f_basic \o f_full \o f_none)

\* ---------------------------------------------------------------------
\* checks/structured_data.py
\*
\* The body of a <script type="application/ld+json"> is [kind |-> "invalid"]
\* (json.loads raises JSONDecodeError), [kind |-> "empty"] (script.string is
\* empty), [kind |-> "list", items] (a top-level array) or a JSON value:
\*   [kind |-> "number"]          a number, true, false or null
\*   [kind |-> "string", has]     a string; has = which of "@type", "@graph",
\*                                "sameAs" occur in it
\*   [kind |-> "object", type, graph, keys, sameAs]
\* type is [kind |-> "absent" | "string" | "list" | "number" | "unhashable",
\* names]; graph is [kind |-> "absent" | "list" | "number", items]; keys are
\* the object's other keys; sameAs is [kind |-> "absent" | "string" | "list",
\* len].
\* ---------------------------------------------------------------------

HIGH_VALUE_SCHEMAS ==
    {"Organization", "LocalBusiness", "Product", "Service", "Person", "Article",
     "BlogPosting", "FAQPage", "HowTo", "Recipe", "Event", "Course",
     "SoftwareApplication", "WebApplication"}

\* The recommended fields less "description".
ORG_FIELDS_WITHOUT_DESCRIPTION ==
    {"name", "url", "logo", "sameAs", "contactPoint"}

RECOMMENDED_ORG_FIELDS ==
    {"name", "description", "url", "logo", "sameAs", "contactPoint"}

RECURSIVE extract_json_ld(_)
extract_json_ld(scripts) ==
    IF scripts = <<>> THEN <<>>
    ELSE LET content == scripts[1]
             rest    == extract_json_ld(Tail(scripts))
         IN  CASE content.kind \in {"invalid", "empty"} -> rest
               [] content.kind = "list" -> content.items \o rest
               [] OTHER -> <<content>> \o rest

\* The outcome of a call that can raise: [raised, types].
TypeErrorRaised == [raised |-> TRUE, types |-> {}]

Types(names) == [raised |-> FALSE, types |-> names]

SeqToSet(s) == {s[i] : i \in 1..Len(s)}

RECURSIVE get_schema_types(_)
RECURSIVE GraphTypes(_)

\* The loop over data["@graph"]: items that are not objects are skipped.
GraphTypes(items) ==
    IF items = <<>> THEN Types({})
    ELSE LET head == IF items[1].kind = "object"
                     THEN get_schema_types(items[1]) ELSE Types({})
             rest == GraphTypes(Tail(items))
         IN  IF head.raised \/ rest.raised THEN TypeErrorRaised
             ELSE Types(head.types \cup rest.types)

get_schema_types(data) ==
    CASE data.kind = "number" -> TypeErrorRaised
      [] data.kind = "string" ->
            IF "@type" \in data.has \/ "@graph" \in data.has
            THEN TypeErrorRaised ELSE Types({})
      [] OTHER ->
            LET own   == CASE data.type.kind = "absent" -> Types({})
                           [] data.type.kind = "unhashable" -> TypeErrorRaised
                           [] OTHER -> Types(SeqToSet(data.type.names))
                graph == CASE data.graph.kind = "absent" -> Types({})
                           [] data.graph.kind = "number" -> TypeErrorRaised
                           [] OTHER -> GraphTypes(data.graph.items)
            IN  IF own.raised \/ graph.raised THEN TypeErrorRaised
                ELSE Types(own.types \cup graph.types)

\* for data in json_ld_data: all_types.update(get_schema_types(data))
RECURSIVE AllTypes(_)
AllTypes(datas) ==
    IF datas = <<>> THEN Types({})
    ELSE LET head == get_schema_types(datas[1])
             rest == AllTypes(Tail(datas))
         IN  IF head.raised \/ rest.raised THEN TypeErrorRaised
             ELSE Types(head.types \cup rest.types)

IsOrg(data) ==
    LET t == get_schema_types(data).types
    IN  "Organization" \in t \/ "LocalBusiness" \in t

\* The first block whose types hold Organization or LocalBusiness, as a
\* sequence of at most one element.
RECURSIVE FirstOrg(_)
FirstOrg(datas) ==
    IF datas = <<>> THEN <<>>
    ELSE IF IsOrg(datas[1]) THEN <<datas[1]>> ELSE FirstOrg(Tail(datas))

\* The sameAs loop: "found" at the first block whose sameAs is a list of at
\* least 2 entries, "raised" if a string block holding "sameAs" comes first
\* (data["sameAs"] on a str), "none" otherwise.
RECURSIVE SameAsScan(_)
SameAsScan(datas) ==
    IF datas = <<>> THEN "none"
    ELSE LET data == datas[1]
         IN  CASE data.kind = "string" ->
                     IF "sameAs" \in data.has THEN "raised"
                     ELSE SameAsScan(Tail(datas))
               [] data.kind = "object" ->
                     IF data.sameAs.kind = "list" /\ data.sameAs.len >= 2
                     THEN "found" ELSE SameAsScan(Tail(datas))
               [] OTHER -> "raised"

\* An evaluator returning five points more than it counted.
ReturnedOverCeiling(check) ==
    [raised |-> FALSE, result |-> [check EXCEPT !.score = @ + 5]]

\* The outcome of an evaluator: [raised, result].
EvaluatorRaised == [raised |-> TRUE, result |-> CheckResult("", 0, 0, <<>>)]

Returned(check) == [raised |-> FALSE, result |-> check]

check_structured_data(scripts) ==
    LET json_ld_data == extract_json_ld(scripts)
        all_types    == AllTypes(json_ld_data)
        high_value   == all_types.types \cap HIGH_VALUE_SCHEMAS # {}
        org          == FirstOrg(json_ld_data)
        has_org      == org # <<>>
        missing      == IF has_org THEN RECOMMENDED_ORG_FIELDS \ org[1].keys ELSE {}
        same_as      == SameAsScan(json_ld_data)
        f_high       ==
            IF high_value
            THEN <<Plain("structured_data", "High-value schemas found", PASS)>>
            ELSE <<Fix("structured_data", "No high-value schema types found", WARNING, 7)>>
        f_org        ==
            IF has_org
            THEN IF missing # {}
                 THEN <<Finding("structured_data",
                                "Organization schema missing recommended fields",
                                INFO, missing, "hint", 4)>>
                 ELSE <<Plain("structured_data",
                              "Organization schema has all recommended fields", PASS)>>
            ELSE IF "Organization" \notin all_types.types
                    /\ "LocalBusiness" \notin all_types.types
                 THEN <<Fix("structured_data", "No Organization/LocalBusiness schema",
                            WARNING, 7)>>
                 ELSE <<>>
        f_same       ==
            IF same_as = "found"
            THEN <<Plain("structured_data", "Good entity linking via sameAs", PASS)>>
            ELSE <<Fix("structured_data", "Missing or minimal sameAs links", INFO, 5)>>
        score        == 5 + (IF high_value THEN 10 ELSE 0)
                          + (IF has_org /\ missing = {} THEN 5 ELSE 0)
                          + (IF same_as = "found" THEN 5 ELSE 0)
    IN  IF json_ld_data = <<>>
        THEN Returned(CheckResult("Structured Data", 0, 25,
                 <<Fix("structured_data", "No JSON-LD structured data found", ERROR, 8)>>))
        ELSE IF all_types.raised \/ same_as = "raised" THEN EvaluatorRaised
        ELSE Returned(CheckResult("Structured Data", score, 25,
                 <<Plain("structured_data", "Found JSON-LD block(s)", PASS)>>
                 \o f_high \o f_org \o f_same))

\* ---------------------------------------------------------------------
\* checks/meta_tags.py
\* The parsed document (soup) answers the lookups of the evaluators:
\* soup.title and soup.description are the lengths of the title text and of
\* the description content (0: tag missing or empty), soup.og the set of
\* og: properties present, soup.canonical one of "missing", "no_href",
\* "href".
\* ---------------------------------------------------------------------

OG_TAGS == {"og:title", "og:description", "og:image", "og:type", "og:url"}

check_meta_tags(soup) ==
    LET title       == soup.title
        description == soup.description
        present_og  == Cardinality(soup.og \cap OG_TAGS)
        f_title     ==
            IF title = 0
            THEN <<Fix("meta_tags", "Missing page title", ERROR, 8)>>
            ELSE IF title < 30
            THEN <<Fix("meta_tags", "Title too short", WARNING, 5)>>
            ELSE IF title > 70
            THEN <<Fix("meta_tags", "Title too long", INFO, 3)>>
            ELSE <<Plain("meta_tags", "Good title length", PASS)>>
        s_title     == IF title = 0 \/ title < 30 THEN 0 ELSE IF title > 70 THEN 3 ELSE 5
        f_desc      ==
            IF description = 0
            THEN <<Fix("meta_tags", "Missing meta description", ERROR, 7)>>
            ELSE IF description < 100
            THEN <<Fix("meta_tags", "Meta description too short", WARNING, 5)>>
            ELSE IF description > 170
            THEN <<Finding("meta_tags", "Meta description slightly long", INFO,
                           {}, None, 2)>>
            ELSE <<Plain("meta_tags", "Good meta description length", PASS)>>
        s_desc      == IF description = 0 THEN 0
                       ELSE IF description < 100 THEN 2
                       ELSE IF description > 170 THEN 4 ELSE 5
        f_og        ==
            IF present_og >= 4
            THEN <<Plain("meta_tags", "Good Open Graph coverage", PASS)>>
            ELSE IF present_og >= 2
            THEN <<Finding("meta_tags", "Partial Open Graph tags", INFO,
                           OG_TAGS \ soup.og, "hint", 3)>>
            ELSE <<Fix("meta_tags", "Missing or minimal Open Graph tags", WARNING, 4)>>
        s_og        == IF present_og >= 4 THEN 5 ELSE IF present_og >= 2 THEN 2 ELSE 0
        has_canon   == soup.canonical = "href"
        f_canon     ==
            IF has_canon
            THEN <<Plain("meta_tags", "Canonical URL set", PASS)>>
            ELSE <<Fix("meta_tags", "No canonical URL", INFO, 3)>>
        s_canon     == IF has_canon THEN 5 ELSE 0
    IN  CheckResult("Meta Tags", s_title + s_desc + s_og + s_canon, 20,
                    f_title \o f_desc \o f_og \o f_canon)

\* ---------------------------------------------------------------------
\* checks/content_structure.py
\* soup.body and soup.chrome count the elements outside and inside
\* <script>, <style>, <nav>, <footer>, <header>, <aside>:
\*   [h1, other (h2..h6), lists, items, tables, with_th, faq (a heading text
\*    holds an FAQ pattern), paragraphs (word count of each <p>)]
\* ---------------------------------------------------------------------

NoElements ==
    [h1 |-> 0, other |-> 0, lists |-> 0, items |-> 0, tables |-> 0,
     with_th |-> 0, faq |-> FALSE, paragraphs |-> <<>>]

\* BeautifulSoup(str(soup), "lxml"): a copy of the document.
Reparse(soup) == soup

\* tag.decompose() for every script/style/nav/footer/header/aside element.
Decompose(soup) == [soup EXCEPT !.chrome = NoElements, !.scripts = <<>>]

\* find_all over a document: the elements outside and inside the chrome.
Visible(soup) ==
    [h1         |-> soup.body.h1 + soup.chrome.h1,
     other      |-> soup.body.other + soup.chrome.other,
     lists      |-> soup.body.lists + soup.chrome.lists,
     items      |-> soup.body.items + soup.chrome.items,
     tables     |-> soup.body.tables + soup.chrome.tables,
     with_th    |-> soup.body.with_th + soup.chrome.with_th,
     faq        |-> soup.body.faq \/ soup.chrome.faq,
     paragraphs |-> soup.body.paragraphs \o soup.chrome.paragraphs]

RECURSIVE SumSeq(_)
SumSeq(s) == IF s = <<>> THEN 0 ELSE s[1] + SumSeq(Tail(s))

check_content_structure(soup) ==
    LET content_soup   == Visible(Decompose(Reparse(soup)))
        h1_count       == content_soup.h1
        total_headings == content_soup.h1 + content_soup.other
        lists          == content_soup.lists
        list_items     == content_soup.items
        tables         == content_soup.tables
        lengths        == content_soup.paragraphs
        long_paras     == Cardinality({i \in 1..Len(lengths) : lengths[i] > 100})
        \* avg_length < 60 with avg_length = sum(lengths) / len(lengths)
        short_avg      == SumSeq(lengths) < 60 * Len(lengths)
        f_h1           ==
            IF h1_count = 0
            THEN <<Fix("content_structure", "No H1 heading found", ERROR, 7)>>
            ELSE IF h1_count > 1
            THEN <<Fix("content_structure", "Multiple H1 headings", WARNING, 4)>>
            ELSE <<Plain("content_structure", "Single H1 heading", PASS)>>
        s_h1           == IF h1_count = 0 THEN 0 ELSE IF h1_count > 1 THEN 2 ELSE 4
        f_head         ==
            IF total_headings >= 3
            THEN <<Plain("content_structure", "Good heading structure", PASS)>>
            ELSE IF total_headings > 0
            THEN <<Fix("content_structure", "Minimal heading structure", INFO, 3)>>
            ELSE <<>>
        s_head         == IF total_headings >= 3 THEN 2 ELSE 0
        f_lists        ==
            IF lists >= 2 /\ list_items >= 5
            THEN <<Plain("content_structure", "Good list usage", PASS)>>
            ELSE IF lists >= 1
            THEN <<Fix("content_structure", "Some list usage", INFO, 3)>>
            ELSE <<Fix("content_structure", "No lists found", INFO, 4)>>
        s_lists        == IF lists >= 2 /\ list_items >= 5 THEN 4
                          ELSE IF lists >= 1 THEN 2 ELSE 0
        f_tables       ==
            IF tables = 0 THEN <<>>
            ELSE IF content_soup.with_th = tables
            THEN <<Plain("content_structure", "Tables with headers found", PASS)>>
            ELSE <<Fix("content_structure", "Tables found but some lack headers", INFO, 2)>>
        s_tables       == IF tables = 0 THEN 0
                          ELSE IF content_soup.with_th = tables THEN 3 ELSE 1
        f_faq          ==
            IF content_soup.faq
            THEN <<Plain("content_structure", "FAQ section detected", PASS)>>
            ELSE <<Fix("content_structure", "No FAQ section found", INFO, 4)>>
        s_faq          == IF content_soup.faq THEN 3 ELSE 0
        f_paras        ==
            IF lengths = <<>> THEN <<>>
            ELSE IF short_avg /\ long_paras = 0
            THEN <<Plain("content_structure", "Good paragraph length", PASS)>>
            ELSE IF long_paras > 0
            THEN <<Fix("content_structure", "long paragraphs (>100 words)", INFO, 3)>>
            ELSE <<>>
        s_paras        == IF lengths = <<>> THEN 0
                          ELSE IF short_avg /\ long_paras = 0 THEN 4
                          ELSE IF long_paras > 0 THEN 2 ELSE 0
    IN  CheckResult("Content Structure",
                    s_h1 + s_head + s_lists + s_tables + s_faq + s_paras, 20,
                    f_h1 \o f_head \o f_lists \o f_tables \o f_faq \o f_paras)

\* ---------------------------------------------------------------------
\* checks/technical.py
\* The body of robots.txt (lower-cased) is a sequence of lines:
\*   [t |-> "ua", agent]   "user-agent: <agent>\n"
\*   [t |-> "dis", agent]  "disallow: /\n"
\*   [t |-> "pad", agent]  a comment line of PadLen characters
\* ---------------------------------------------------------------------

ai_crawlers == <<"gptbot", "chatgpt", "anthropic", "claude", "google-extended", "ccbot">>

\* len(agent) for the agent names used in the model's robots.txt bodies, and
\* the crawler names that are a prefix of each (f"user-agent: {crawler}" is
\* found inside "user-agent: claudebot").
AgentLen(agent) ==
    CASE agent = "gptbot" -> 6
      [] agent = "claudebot" -> 9
      [] agent = "ccbot" -> 5
      [] OTHER -> 1

IsPrefix(crawler, agent) ==
    crawler = agent \/ (crawler = "claude" /\ agent = "claudebot")

\* Length of a filler line.
PadLen == 190

LineLen(line) ==
    CASE line.t = "ua" -> 12 + AgentLen(line.agent) + 1
      [] line.t = "dis" -> 12
      [] OTHER -> PadLen

\* Offset of line i in the text.
RECURSIVE Offset(_, _)
Offset(body, i) == IF i = 1 THEN 0 ELSE Offset(body, i - 1) + LineLen(body[i - 1])

\* robots_content.find(f"user-agent: {crawler}"): the index of the first
\* matching line, 0 if there is none.
FindAgent(body, crawler) ==
    LET hits == {i \in 1..Len(body) : body[i].t = "ua" /\ IsPrefix(crawler, body[i].agent)}
    IN  IF hits = {} THEN 0 ELSE CHOOSE i \in hits : \A j \in hits : i <= j

\* "disallow: /" in robots_content[idx:idx+200]
IsBlocked(body, crawler) ==
    LET at  == FindAgent(body, crawler)
        idx == Offset(body, at)
    IN  at # 0
        /\ \E j \in at..Len(body) :
              body[j].t = "dis" /\ Offset(body, j) + 11 <= idx + 200

blocked_crawlers(body) ==
    SelectSeq(ai_crawlers, LAMBDA crawler : IsBlocked(body, crawler))

\* urlparse(final_url).scheme
Scheme(url) == IF url = "https://example.com" THEN "https" ELSE "http"

check_technical(soup, final_url, robots, sitemap) ==
    LET https      == Scheme(final_url) = "https"
        f_https    ==
            IF https THEN <<Plain("technical", "HTTPS enabled", PASS)>>
            ELSE <<Fix("technical", "Not using HTTPS", WARNING, 5)>>
        blocked    == blocked_crawlers(robots.body)
        f_robots   ==
            IF robots.raised
            THEN <<Plain("technical", "Could not check robots.txt", INFO)>>
            ELSE IF robots.status = 200
            THEN IF blocked # <<>>
                 THEN <<Finding("technical", "AI crawlers blocked", WARNING,
                                SeqToSet(blocked), "hint", 6)>>
                 ELSE <<Plain("technical", "No AI crawler blocks detected", PASS)>>
            ELSE <<Plain("technical", "No robots.txt (all crawlers allowed by default)",
                         INFO)>>
        s_robots   == IF robots.raised THEN 0
                      ELSE IF robots.status = 200
                      THEN IF blocked # <<>> THEN 0 ELSE 3
                      ELSE 2
        has_map    == ~sitemap.raised /\ sitemap.status = 200 /\ sitemap.ctype \in XmlTypes
        f_sitemap  ==
            IF sitemap.raised THEN <<>>
            ELSE IF has_map THEN <<Plain("technical", "sitemap.xml found", PASS)>>
            ELSE <<Fix("technical", "No sitemap.xml found", INFO, 3)>>
        f_viewport ==
            IF soup.viewport THEN <<Plain("technical", "Mobile viewport set", PASS)>>
            ELSE <<Fix("technical", "No viewport meta tag", INFO, 3)>>
        f_lang     ==
            IF soup.lang THEN <<Plain("technical", "Language declared", PASS)>>
            ELSE <<Fix("technical", "No language declaration", INFO, 2)>>
        score      == (IF https THEN 2 ELSE 0) + s_robots + (IF has_map THEN 2 ELSE 0)
                      + (IF soup.viewport THEN 2 ELSE 0) + (IF soup.lang THEN 1 ELSE 0)
    IN  CheckResult("Technical", score, 10,
                    f_https \o f_robots \o f_sitemap \o f_viewport \o f_lang)

\* ---------------------------------------------------------------------
\* The sites audit_url is run against.  A site is the requested url, the url
\* the primary GET ends on, the parsed document and the four auxiliary
\* files.  Every site differs from one of three base sites (the best, the
\* worst, a mixed one) in one group of inputs, which ranges over its whole
\* bounded domain.
\* ---------------------------------------------------------------------

MaxLines == 3

MaxParagraphs == 2

MaxRobotsLines == 3

\* All sequences over S of length at most n.
RECURSIVE SeqsUpTo(_, _)
SeqsUpTo(S, n) ==
    IF n = 0 THEN {<<>>}
    ELSE LET shorter == SeqsUpTo(S, n - 1)
         IN  shorter \cup {Append(s, x) : s \in {t \in shorter : Len(t) = n - 1}, x \in S}

NotFound == Response(404, "text/plain", <<>>)

LlmsBodies == SeqsUpTo({"blank", "text", "header"}, MaxLines)

LlmsResponses ==
    {TransportError, NotFound, Response(200, "application/xml", <<"header", "text", "text">>)}
    \cup {Response(200, "text/plain", b) : b \in LlmsBodies}

FullResponses ==
    {TransportError, NotFound, Response(200, "application/xml", <<>>),
     Response(200, "text/plain", <<>>)}

JsonType(kind, names) == [kind |-> kind, names |-> names]

JsonGraph(kind, items) == [kind |-> kind, items |-> items]

JsonSameAs(kind, len) == [kind |-> kind, len |-> len]

JsonObject(type, graph, keys, sameAs) ==
    [kind |-> "object", type |-> type, graph |-> graph, keys |-> keys, sameAs |-> sameAs]

JsonNumber == [kind |-> "number"]

JsonString(has) == [kind |-> "string", has |-> has]

NoGraph == JsonGraph("absent", <<>>)

TypeValues ==
    {JsonType("absent", <<>>), JsonType("string", <<"Organization">>),
     JsonType("string", <<"WebPage">>), JsonType("list", <<"Article", "WebPage">>),
     JsonType("number", <<"5">>), JsonType("unhashable", <<>>)}

\* The other keys of an object with the value of its sameAs key.
KeyValues ==
    {<<{}, JsonSameAs("absent", 0)>>,
     <<RECOMMENDED_ORG_FIELDS, JsonSameAs("list", 2)>>,
     <<RECOMMENDED_ORG_FIELDS \ {"description"}, JsonSameAs("list", 2)>>,
     <<{"name", "sameAs"}, JsonSameAs("list", 1)>>,
     <<{"name", "sameAs"}, JsonSameAs("string", 0)>>}

OrgFull ==
    JsonObject(JsonType("string", <<"Organization">>), NoGraph,
               RECOMMENDED_ORG_FIELDS, JsonSameAs("list", 2))

GraphValues ==
    {JsonGraph("number", <<>>),
     JsonGraph("list", <<JsonNumber, OrgFull>>),
     JsonGraph("list", <<JsonObject(JsonType("unhashable", <<>>), NoGraph, {},
                                    JsonSameAs("absent", 0))>>)}

JsonObjects ==
    {JsonObject(t, NoGraph, k[1], k[2]) : t \in TypeValues, k \in KeyValues}
    \cup {JsonObject(t, g, {}, JsonSameAs("absent", 0)) :
             t \in {JsonType("absent", <<>>), JsonType("string", <<"WebPage">>)},
             g \in GraphValues}

ScriptBodies ==
    JsonObjects
    \cup {JsonNumber, JsonString({}), JsonString({"@type"}), JsonString({"sameAs"}),
          [kind |-> "invalid"], [kind |-> "empty"],
          [kind |-> "list", items |-> <<>>],
          [kind |-> "list", items |-> <<JsonObject(JsonType("string", <<"Product">>),
                                            NoGraph, {"name"}, JsonSameAs("absent", 0)),
                                        OrgFull>>]}

SecondScripts ==
    {OrgFull, JsonNumber, [kind |-> "invalid"],
     JsonObject(JsonType("string", <<"LocalBusiness">>), NoGraph, {"name"},
                JsonSameAs("absent", 0)),
     JsonObject(JsonType("absent", <<>>), NoGraph, {"sameAs"}, JsonSameAs("list", 2))}

ScriptLists ==
    {<<>>} \cup {<<c>> : c \in ScriptBodies}
    \cup {<<c, d>> : c \in ScriptBodies, d \in SecondScripts}

TitleLengths == {0, 29, 30, 70, 71}

DescriptionLengths == {0, 99, 100, 170, 171}

OgSets ==
    {{}, {"og:title"}, {"og:title", "og:image"}, {"og:title", "og:image", "og:url"},
     OG_TAGS \ {"og:type"}, OG_TAGS}

CanonicalValues == {"missing", "no_href", "href"}

WordCounts == {20, 100, 101}

ParagraphLists == SeqsUpTo(WordCounts, MaxParagraphs)

\* (lists, items) and (tables, with_th)
ListCounts == {<<0, 0>>, <<1, 5>>, <<2, 4>>, <<2, 5>>}

TableCounts == {<<0, 0>>, <<1, 0>>, <<1, 1>>, <<2, 1>>}

Elements(h1, other, lc, tc, faq, paragraphs) ==
    [h1 |-> h1, other |-> other, lists |-> lc[1], items |-> lc[2],
     tables |-> tc[1], with_th |-> tc[2], faq |-> faq, paragraphs |-> paragraphs]

BodyValues ==
    {e \in {Elements(h1, other, lc, tc, faq, <<20>>) :
                h1 \in 0..2, other \in {0, 2}, lc \in ListCounts, tc \in TableCounts,
                faq \in BOOLEAN} :
        e.faq => e.h1 + e.other > 0}

\* Elements inside <header>, <nav>, <footer>: a second h1, a menu list, a
\* long paragraph.
ChromeValues ==
    {NoElements,
     Elements(1, 0, <<1, 5>>, <<0, 0>>, TRUE, <<101>>)}

RobotsLines ==
    {[t |-> "ua", agent |-> "gptbot"], [t |-> "ua", agent |-> "claudebot"],
     [t |-> "dis", agent |-> ""], [t |-> "pad", agent |-> ""]}

\* Two groups for the same crawler, the second one disallowing, more than
\* 200 characters after the first.
TwoGroups ==
    <<[t |-> "ua", agent |-> "gptbot"], [t |-> "pad", agent |-> ""],
      [t |-> "ua", agent |-> "gptbot"], [t |-> "dis", agent |-> ""]>>

RobotsResponses ==
    {TransportError, NotFound, Response(200, "text/plain", TwoGroups)}
    \cup {Response(200, "text/plain", b) : b \in SeqsUpTo(RobotsLines, MaxRobotsLines)}

SitemapResponses ==
    {TransportError, NotFound, Response(200, "application/xml", <<>>),
     Response(200, "text/plain", <<>>)}

\* (requested url, url after redirects)
UrlPairs ==
    {<<"example.com", "https://example.com">>,
     <<"https://example.com", "https://example.com">>,
     <<"http://example.com", "http://example.com">>,
     <<"http://example.com", "https://example.com">>}

BestSite ==
    [url |-> "https://example.com", final_url |-> "https://example.com",
     llms |-> Response(200, "text/plain", <<"header", "text", "text">>),
     full |-> Response(200, "text/plain", <<>>),
     robots |-> Response(200, "text/plain", <<>>),
     sitemap |-> Response(200, "application/xml", <<>>),
     soup |-> [scripts |-> <<OrgFull>>, title |-> 30, description |-> 100,
               og |-> OG_TAGS, canonical |-> "href",
               body |-> Elements(1, 2, <<2, 5>>, <<1, 1>>, TRUE, <<20>>),
               chrome |-> NoElements, viewport |-> TRUE, lang |-> TRUE]]

WorstSite ==
    [url |-> "http://example.com", final_url |-> "http://example.com",
     llms |-> NotFound, full |-> NotFound,
     robots |-> Response(200, "text/plain",
                         <<[t |-> "ua", agent |-> "gptbot"], [t |-> "dis", agent |-> ""]>>),
     sitemap |-> NotFound,
     soup |-> [scripts |-> <<>>, title |-> 0, description |-> 0,
               og |-> {}, canonical |-> "missing",
               body |-> NoElements, chrome |-> NoElements,
               viewport |-> FALSE, lang |-> FALSE]]

MixedSite ==
    [WorstSite EXCEPT !.llms = BestSite.llms, !.full = BestSite.full,
                      !.soup.scripts = BestSite.soup.scripts]

BaseSites == {BestSite, WorstSite, MixedSite}

Variants(b) ==
    {[b EXCEPT !.llms = l, !.full = f] : l \in LlmsResponses, f \in FullResponses}
    \cup {[b EXCEPT !.soup.scripts = s] : s \in ScriptLists}
    \cup {[b EXCEPT !.soup.title = t, !.soup.description = d, !.soup.og = o,
                    !.soup.canonical = c] :
             t \in TitleLengths, d \in DescriptionLengths, o \in OgSets,
             c \in CanonicalValues}
    \cup {[b EXCEPT !.soup.body = e, !.soup.chrome = c] :
             e \in BodyValues, c \in ChromeValues}
    \cup {[b EXCEPT !.soup.body.paragraphs = p] : p \in ParagraphLists}
    \cup {[b EXCEPT !.robots = r] : r \in RobotsResponses}
    \cup {[b EXCEPT !.url = u[1], !.final_url = u[2], !.sitemap = s,
                    !.soup.viewport = v, !.soup.lang = g] :
             u \in UrlPairs, s \in SitemapResponses, v \in BOOLEAN, g \in BOOLEAN}

Sites == UNION {Variants(b) : b \in BaseSites}

\* ---------------------------------------------------------------------
\* State
\* ---------------------------------------------------------------------

VARIABLES
    apc,        \* where audit_url stands: "start", the next evaluator, "returned", "read"
    site,       \* the site under audit
    result,     \* the AuditResult audit_url builds and returns
    checks,     \* the list [check_llms_txt(...), ...] while it is being evaluated
    requests,   \* every GET issued on the client, in order
    calls,      \* every evaluator invoked, in order
    view,       \* what the caller read from the returned result
    tpc,        \* where test_brand_visibility stands
    call,       \* its arguments and the configured credentials
    providers,  \* the providers it runs
    prompts,    \* get_test_prompts(brand, industry, product)
    tasks,      \* per provider: the state of test_provider(provider)
    submitted,  \* how many tasks executor.submit has started
    completed,  \* the finished futures, in completion order
    snapshot,   \* the futures already finished when as_completed started
    yielded,    \* the futures as_completed has yielded
    tresult,    \* the TestResult being built
    tview,      \* what the caller read from the returned TestResult
    mcall       \* a call of _check_mention: text, brand and what it returned

auditVars == <<apc, site, result, checks, requests, calls, view>>

testVars ==
    <<tpc, call, providers, prompts, tasks, submitted, completed, snapshot, yielded,
      tresult, tview, mcall>>

vars == <<auditVars, testVars>>

NoView == [read |-> FALSE, total_score |-> 0, quick_wins |-> <<>>]

\* ---------------------------------------------------------------------
\* auditor.py
\* ---------------------------------------------------------------------

normalize_url(url) ==
    IF url \in {"http://example.com", "https://example.com"} THEN url
    ELSE "https://example.com"

\* What client.get(url) / raise_for_status() can do.
PrimaryOutcomes == {"ok", "timeout", "status", "request_error", "other"}

ErrorText(outcome) ==
    CASE outcome = "timeout" -> "Timeout after 30.0s"
      [] outcome = "status" -> "HTTP 404"
      [] outcome = "request_error" -> "Request failed"
      [] OTHER -> "Error"

\* One client.get in the log: the path asked for and what came of it.
Request(path, outcome) == [path |-> path, outcome |-> outcome]

\* What an auxiliary fetch did, in the terms of PrimaryOutcomes.
Outcome(resp) ==
    IF resp.raised THEN "request_error"
    ELSE IF resp.status = 200 THEN "ok" ELSE "status"

FetchIgnoringFailure(outcome) ==
    /\ apc = "start"
    /\ requests' = Append(requests, Request("/", outcome))
    /\ result' = AuditResult(normalize_url(site.url), site.final_url, <<>>,
                             IF outcome = "ok" THEN None ELSE ErrorText(outcome))
    /\ apc' = "check_llms_txt"
    /\ UNCHANGED <<site, checks, calls, view>>
    /\ UNCHANGED testVars

\* url = normalize_url(url); result = AuditResult(url, url); client.get(url);
\* response.raise_for_status(); result.final_url = str(response.url)
Fetch(outcome) ==
    /\ apc = "start"
    /\ requests' = Append(requests, Request("/", outcome))
    /\ IF outcome = "ok"
       THEN /\ result' = AuditResult(normalize_url(site.url), site.final_url, <<>>, None)
            /\ apc' = "check_llms_txt"
       ELSE /\ result' = AuditResult(normalize_url(site.url), normalize_url(site.url),
                                     <<>>, ErrorText(outcome))
            /\ apc' = "returned"
    /\ UNCHANGED <<site, checks, calls, view>>
    /\ UNCHANGED testVars

RunLlmsTxt ==
    /\ apc = "check_llms_txt"
    /\ calls' = Append(calls, "check_llms_txt")
    /\ requests' = requests \o <<Request("/llms.txt", Outcome(site.llms)),
                                 Request("/llms-full.txt", Outcome(site.full))>>
    /\ checks' = Append(checks, check_llms_txt(site.llms, site.full))
    /\ apc' = "check_structured_data"
    /\ UNCHANGED <<site, result, view>>
    /\ UNCHANGED testVars

\* An audit appending to result.checks as the evaluators return.
RunStructuredDataPartial ==
    /\ apc = "check_structured_data"
    /\ calls' = Append(calls, "check_structured_data")
    /\ LET r == check_structured_data(site.soup.scripts)
       IN  IF r.raised
           THEN /\ result' = [result EXCEPT !.error = "Error", !.checks = checks]
                /\ apc' = "returned"
                /\ checks' = <<>>
           ELSE /\ checks' = Append(checks, r.result)
                /\ apc' = "check_meta_tags"
                /\ result' = result
    /\ UNCHANGED <<site, requests, view>>
    /\ UNCHANGED testVars

\* An exception from an evaluator leaves the list unassigned and lands in
\* "except Exception as e: result.error = f"Error: {e}"".
RunStructuredData ==
    /\ apc = "check_structured_data"
    /\ calls' = Append(calls, "check_structured_data")
    /\ LET r == check_structured_data(site.soup.scripts)
       IN  IF r.raised
           THEN /\ result' = [result EXCEPT !.error = "Error"]
                /\ apc' = "returned"
                /\ checks' = <<>>
           ELSE /\ checks' = Append(checks, r.result)
                /\ apc' = "check_meta_tags"
                /\ result' = result
    /\ UNCHANGED <<site, requests, view>>
    /\ UNCHANGED testVars

RunMetaTags ==
    /\ apc = "check_meta_tags"
    /\ calls' = Append(calls, "check_meta_tags")
    /\ checks' = Append(checks, check_meta_tags(site.soup))
    /\ apc' = "check_content_structure"
    /\ UNCHANGED <<site, result, requests, view>>
    /\ UNCHANGED testVars

\* check_content_structure stripping the shared document itself.
RunContentStructureInPlace ==
    /\ apc = "check_content_structure"
    /\ calls' = Append(calls, "check_content_structure")
    /\ checks' = Append(checks, check_content_structure(site.soup))
    /\ site' = [site EXCEPT !.soup = Decompose(site.soup)]
    /\ apc' = "check_technical"
    /\ UNCHANGED <<result, requests, view>>
    /\ UNCHANGED testVars

\* content_soup is a copy: the shared soup is not written.
RunContentStructure ==
    /\ apc = "check_content_structure"
    /\ calls' = Append(calls, "check_content_structure")
    /\ checks' = Append(checks, check_content_structure(site.soup))
    /\ apc' = "check_technical"
    /\ UNCHANGED <<site, result, requests, view>>
    /\ UNCHANGED testVars

\* The last element of the list; result.checks = [...] follows.
RunTechnical ==
    /\ apc = "check_technical"
    /\ calls' = Append(calls, "check_technical")
    /\ requests' = requests \o <<Request("/robots.txt", Outcome(site.robots)),
                                 Request("/sitemap.xml", Outcome(site.sitemap))>>
    /\ result' = [result EXCEPT !.checks =
                     Append(checks, check_technical(site.soup, result.final_url,
                                                    site.robots, site.sitemap))]
    /\ checks' = <<>>
    /\ apc' = "returned"
    /\ UNCHANGED <<site, view>>
    /\ UNCHANGED testVars

\* The caller reads the derived properties of the returned result.
ReadResult ==
    /\ apc = "returned"
    /\ view' = [read |-> TRUE, total_score |-> total_score(result),
                quick_wins |-> quick_wins(result)]
    /\ apc' = "read"
    /\ UNCHANGED <<site, result, checks, requests, calls>>
    /\ UNCHANGED testVars

\* ---------------------------------------------------------------------
\* tester/prompts.py, tester/providers.py, tester/runner.py
\* ---------------------------------------------------------------------

LLMResponse(provider, model, prompt, response, mentions_brand, mention_context, latency_ms, error) ==
    [provider |-> provider, model |-> model, prompt |-> prompt, response |-> response,
     mentions_brand |-> mentions_brand, mention_context |-> mention_context,
     latency_ms |-> latency_ms, error |-> error]

LLMResult(provider, model, responses) ==
    [provider |-> provider, model |-> model, responses |-> responses]

TestResult(brand, industry, llm_results) ==
    [brand |-> brand, industry |-> industry, llm_results |-> llm_results]

\* get_test_prompts: industry and product are None or a non-empty string.
get_test_prompts(brand, industry, product) ==
    <<[category |-> "direct", prompt |-> "What is {brand}?"]>>
    \o (IF industry # None
        THEN <<[category |-> "recommendation", prompt |-> "best {industry} companies"]>>
        ELSE <<[category |-> "recommendation", prompt |-> "alternatives to {brand}"]>>)
    \o <<[category |-> "comparison", prompt |-> "How does {brand} compare"]>>
    \o (IF product # None
        THEN <<[category |-> "product", prompt |-> "Tell me about {product}"]>>
        ELSE <<>>)
    \o <<[category |-> "use_case", prompt |-> "When should someone use {brand}"]>>

\* ---------------------------------------------------------------------
\* LLMProvider._check_mention
\* A text is a sequence of characters.  str.lower() works character by
\* character: "A" becomes "a", U+0130 (capital I with dot above) becomes the
\* two characters "i" and U+0307, every other character of the model stays.
\* ---------------------------------------------------------------------

LowerChar(c) ==
    CASE c = "A" -> <<"a">>
      [] c = "U+0130" -> <<"i", "U+0307">>
      [] OTHER -> <<c>>

\* str.lower(): the lower-cased characters in order (computed by halves).
RECURSIVE Lower(_)
Lower(text) ==
    IF text = <<>> THEN <<>>
    ELSE IF Len(text) = 1 THEN LowerChar(text[1])
    ELSE LET half == Len(text) \div 2
         IN  Lower(SubSeq(text, 1, half)) \o Lower(SubSeq(text, half + 1, Len(text)))

\* str.replace(ch, "")
Remove(text, ch) == SelectSeq(text, LAMBDA c : c # ch)

\* str.find(variant): the lowest 0-based index of an occurrence, or -1.
Find(text, variant) ==
    LET at == {i \in 0..(Len(text) - Len(variant)) :
                  SubSeq(text, i + 1, i + Len(variant)) = variant}
    IN  IF at = {} THEN 0 - 1 ELSE CHOOSE i \in at : \A k \in at : i <= k

\* text[start:end] for 0 <= start and 0 <= end <= len(text)
Slice(text, start, end) ==
    IF start >= end THEN <<>> ELSE SubSeq(text, start + 1, end)

Min(a, b) == IF a <= b THEN a ELSE b

Max(a, b) == IF a >= b THEN a ELSE b

ContextBefore == 50

ContextAfter == 100

Ellipsis == <<".", ".", ".">>

\* The body of the loop for a variant found at idx.
ContextAt(text, variant, idx) ==
    LET start == Max(0, idx - ContextBefore)
        end   == Min(Len(text), idx + Len(variant) + ContextAfter)
    IN  (IF start > 0 THEN Ellipsis ELSE <<>>)
        \o Slice(text, start, end)
        \o (IF end < Len(text) THEN Ellipsis ELSE <<>>)

\* The for loop over the variations from the n-th on.
RECURSIVE MentionFrom(_, _, _)
MentionFrom(text, variations, n) ==
    IF n > Len(variations) THEN [mentions |-> FALSE, context |-> None]
    ELSE LET idx == Find(Lower(text), variations[n])
         IN  IF idx # 0 - 1
             THEN [mentions |-> TRUE, context |-> ContextAt(text, variations[n], idx)]
             ELSE MentionFrom(text, variations, n + 1)

check_mention(text, brand) ==
    LET brand_lower == Lower(brand)
        variations  == <<brand_lower, Remove(brand_lower, " "), Remove(brand_lower, "-")>>
    IN  MentionFrom(text, variations, 1)

NoMention == [text |-> <<>>, brand |-> <<>>, done |-> FALSE,
              result |-> [mentions |-> FALSE, context |-> None]]

\* A provider object: its name and model, and how its query behaves in this
\* run.  For the four providers of providers.py: "mention" and "silent"
\* answer (with and without the brand); "unconfigured" has no API key;
\* "error" is a transport failure, "status" a non-2xx answer, "malformed" an
\* answer without the expected keys, "blank" an exception whose str() is "".
\* A caller-supplied LLMProvider may raise: "raise" on the first call,
\* "raise_late" on the second.
Provider(name, model, behaviour) ==
    [name |-> name, model |-> model, behaviour |-> behaviour]

QueryRaisesOnFailure(provider, k) ==
    provider.behaviour \in {"raise", "error", "status", "malformed", "blank"}

\* The outcome of provider.query(prompt, brand) on its k-th call.
QueryRaises(provider, k) ==
    \/ provider.behaviour = "raise"
    \/ provider.behaviour = "raise_late" /\ k >= 2

\* The failures of a request, with str(e) of the exception each one ends in.
Failures == {"error", "status", "malformed", "blank"}

ErrorMessage(behaviour) ==
    CASE behaviour = "error" -> "failed"
      [] behaviour = "status" -> "Server error '500 Internal Server Error'"
      [] behaviour = "malformed" -> "'choices'"
      [] OTHER -> ""

\* A query posting again after a failed answer.
PostsRetrying(provider) ==
    IF provider.behaviour = "unconfigured" THEN 0
    ELSE IF provider.behaviour \in Failures THEN 2 ELSE 1

\* client.post calls one query makes: none without the API key.
Posts(provider) == IF provider.behaviour = "unconfigured" THEN 0 ELSE 1

queryKeepingText(provider, prompt, k) ==
    LLMResponse(provider.name, provider.model, prompt, "text",
                provider.behaviour = "mention",
                IF provider.behaviour = "mention" THEN "context" ELSE None,
                IF provider.behaviour = "unconfigured" THEN 0 ELSE 120,
                IF provider.behaviour \in Failures \cup {"unconfigured"}
                THEN ErrorMessage(provider.behaviour) ELSE None)

\* query of OpenAIProvider, AnthropicProvider, PerplexityProvider and
\* GoogleProvider; int((time.time() - start) * 1000) reads 120 here.
query(provider, prompt, k) ==
    CASE provider.behaviour = "unconfigured" ->
            LLMResponse(provider.name, provider.model, prompt, "", FALSE, None, 0,
                        "API_KEY not set")
      [] provider.behaviour = "mention" ->
            LLMResponse(provider.name, provider.model, prompt, "text", TRUE, "context",
                        120, None)
      [] provider.behaviour \in Failures ->
            LLMResponse(provider.name, provider.model, prompt, "", FALSE, None, 120,
                        ErrorMessage(provider.behaviour))
      [] OTHER ->
            LLMResponse(provider.name, provider.model, prompt, "text", FALSE, None, 120,
                        None)

\* get_all_providers(), with the behaviour of each service in this run.
get_all_providers ==
    <<Provider("OpenAI", "gpt-4o-mini", "mention"),
      Provider("Anthropic", "claude-3-5-haiku-20241022", "silent"),
      Provider("Google", "gemini-2.0-flash", "error"),
      Provider("Perplexity", "sonar", "mention")>>

get_unfiltered_providers(configured) == get_all_providers

\* get_configured_providers(): configured is the set of names with an API key.
get_configured_providers(configured) ==
    SelectSeq(get_all_providers, LAMBDA p : p.name \in configured)

\* One task: state is "new" (not submitted), "running", "done" (returned its
\* llm_result) or "raised"; asked counts the calls of query and posts the
\* calls of client.post.
NewTask(provider) ==
    [state |-> "new", asked |-> 0, posts |-> 0,
     llm_result |-> LLMResult(provider.name, provider.model, <<>>)]

NoTestResult == TestResult("", None, <<>>)

\* A quotient of the float arithmetic of runner.py, kept exact as num / den;
\* its rounding to binary64 is not represented.
Ratio(num, den) == [num |-> num, den |-> den]

\* LLMResult.mention_rate
mention_rate(self) ==
    IF self.responses = <<>> THEN Ratio(0, 1)
    ELSE Ratio(Cardinality({k \in 1..Len(self.responses) : self.responses[k].mentions_brand})
                   * 100,
               Len(self.responses))

\* LLMResult.error_count: "if r.error" is the truthiness of the string.
error_count(self) ==
    Cardinality({k \in 1..Len(self.responses) : Truthy(self.responses[k].error)})

\* weights.get(result.provider, 1)
Weight(provider) ==
    CASE provider = "OpenAI" -> 3
      [] provider = "Google" -> 2
      [] provider = "Anthropic" -> 1
      [] provider = "Perplexity" -> 2
      [] OTHER -> 1

\* The loop of overall_visibility over the first n results: weighted_sum
\* and total_weight.
RECURSIVE WeightedTotals(_, _)
WeightedTotals(llm_results, n) ==
    IF n = 0 THEN [weighted_sum |-> Ratio(0, 1), total_weight |-> 0]
    ELSE LET before == WeightedTotals(llm_results, n - 1)
             r      == llm_results[n]
             rate   == mention_rate(r)
         IN  IF error_count(r) < Len(r.responses)
             THEN [weighted_sum |->
                       Ratio(before.weighted_sum.num * rate.den
                                 + rate.num * Weight(r.provider) * before.weighted_sum.den,
                             before.weighted_sum.den * rate.den),
                   total_weight |-> before.total_weight + Weight(r.provider)]
             ELSE before

\* TestResult.overall_visibility
overall_visibility(self) ==
    IF self.llm_results = <<>> THEN Ratio(0, 1)
    ELSE LET totals == WeightedTotals(self.llm_results, Len(self.llm_results))
         IN  IF totals.total_weight = 0 THEN Ratio(0, 1)
             ELSE Ratio(totals.weighted_sum.num,
                        totals.weighted_sum.den * totals.total_weight)

NoTestView == [read |-> FALSE, overall_visibility |-> Ratio(0, 1), error_counts |-> <<>>]

TestIdle ==
    /\ tpc = "idle"
    /\ call = [given |-> FALSE, providers |-> <<>>, configured |-> {}, parallel |-> FALSE,
               brand |-> "", industry |-> None, product |-> None]
    /\ providers = <<>>
    /\ prompts = <<>>
    /\ tasks = <<>>
    /\ submitted = 0
    /\ completed = <<>>
    /\ snapshot = {}
    /\ yielded = {}
    /\ tresult = NoTestResult
    /\ tview = NoTestView
    /\ mcall = NoMention

\* if providers is None: providers = get_configured_providers()
\* if not providers: return TestResult(brand=brand, industry=industry)
\* prompts = ...; result = TestResult(...); if parallel and len(providers) > 1
Start ==
    /\ tpc = "start"
    /\ LET selected == IF call.given THEN call.providers
                       ELSE get_configured_providers(call.configured)
       IN  /\ providers' = selected
           /\ tresult' = TestResult(call.brand, call.industry, <<>>)
           /\ IF selected = <<>>
              THEN /\ tpc' = "returned"
                   /\ UNCHANGED <<prompts, tasks>>
              ELSE /\ prompts' = get_test_prompts(call.brand, call.industry, call.product)
                   /\ tasks' = [i \in 1..Len(selected) |-> NewTask(selected[i])]
                   /\ tpc' = IF call.parallel /\ Len(selected) > 1
                             THEN "submit" ELSE "sequential"
    /\ UNCHANGED <<call, submitted, completed, snapshot, yielded>>
    /\ UNCHANGED <<auditVars, tview, mcall>>

\* executor.submit(test_provider, p), for p in providers in order: the task
\* starts running on a worker thread.
Submit ==
    /\ tpc = "submit"
    /\ submitted < Len(providers)
    /\ submitted' = submitted + 1
    /\ tasks' = [tasks EXCEPT ![submitted + 1].state = "running"]
    /\ UNCHANGED <<tpc, call, providers, prompts, completed, snapshot, yielded, tresult>>
    /\ UNCHANGED <<auditVars, tview, mcall>>

QueryStepPrepending(task, provider) ==
    LET k == task.asked + 1
    IN  IF QueryRaises(provider, k)
        THEN [task EXCEPT !.asked = k, !.state = "raised"]
        ELSE [task EXCEPT !.asked = k,
                          !.posts = @ + Posts(provider),
                          !.llm_result.responses =
                              <<query(provider, prompts[k].prompt, k)>> \o @]

\* One iteration of "for prompt_info in prompts" in test_provider.
QueryStep(task, provider) ==
    LET k == task.asked + 1
    IN  IF QueryRaises(provider, k)
        THEN [task EXCEPT !.asked = k, !.state = "raised"]
        ELSE [task EXCEPT !.asked = k,
                          !.posts = @ + Posts(provider),
                          !.llm_result.responses =
                              Append(@, query(provider, prompts[k].prompt, k))]

\* A worker thread runs one query of its task.
TaskQuery(i) ==
    /\ tpc \in {"submit", "collect"}
    /\ tasks[i].state = "running"
    /\ tasks[i].asked < Len(prompts)
    /\ tasks' = [tasks EXCEPT ![i] = QueryStep(tasks[i], providers[i])]
    /\ completed' = IF tasks'[i].state = "raised" THEN Append(completed, i) ELSE completed
    /\ UNCHANGED <<tpc, call, providers, prompts, submitted, snapshot, yielded, tresult>>
    /\ UNCHANGED <<auditVars, tview, mcall>>

\* A worker appending its result to the shared list itself.
TaskReturnAppending(i) ==
    /\ tpc \in {"submit", "collect"}
    /\ tasks[i].state = "running"
    /\ tasks[i].asked = Len(prompts)
    /\ tasks' = [tasks EXCEPT ![i].state = "done"]
    /\ completed' = Append(completed, i)
    /\ tresult' = [tresult EXCEPT !.llm_results = Append(@, tasks[i].llm_result)]
    /\ UNCHANGED <<tpc, call, providers, prompts, submitted, snapshot, yielded>>
    /\ UNCHANGED <<auditVars, tview, mcall>>

\* "return llm_result" on a worker thread: the future is finished.
TaskReturn(i) ==
    /\ tpc \in {"submit", "collect"}
    /\ tasks[i].state = "running"
    /\ tasks[i].asked = Len(prompts)
    /\ tasks' = [tasks EXCEPT ![i].state = "done"]
    /\ completed' = Append(completed, i)
    /\ UNCHANGED <<tpc, call, providers, prompts, submitted, snapshot, yielded, tresult>>
    /\ UNCHANGED <<auditVars, tview, mcall>>

Finished == {i \in 1..Len(tasks) : tasks[i].state \in {"done", "raised"}}

\* as_completed(futures) starts: the futures finished by now are yielded
\* first, in no particular order; the others as they finish.
StartCollect ==
    /\ tpc = "submit"
    /\ submitted = Len(providers)
    /\ snapshot' = Finished
    /\ tpc' = "collect"
    /\ UNCHANGED <<call, providers, prompts, tasks, submitted, completed, yielded, tresult>>
    /\ UNCHANGED <<auditVars, tview, mcall>>

\* The futures as_completed may yield next.
NextYield ==
    IF snapshot \ yielded # {} THEN snapshot \ yielded
    ELSE LET later == SelectSeq(completed, LAMBDA i : i \notin yielded)
         IN  IF later = <<>> THEN {} ELSE {later[1]}

\* The body of "for future in as_completed(futures)": future.result() returns
\* the task's llm_result or re-raises its exception.
CollectedAnonymous(i) ==
    IF tasks[i].state = "done" THEN tasks[i].llm_result
    ELSE LLMResult("", "", <<>>)

Collected(i) ==
    IF tasks[i].state = "done" THEN tasks[i].llm_result
    ELSE LLMResult(providers[i].name, providers[i].model, <<>>)

Collect(i) ==
    /\ tpc = "collect"
    /\ i \in NextYield
    /\ yielded' = yielded \cup {i}
    /\ tresult' = [tresult EXCEPT !.llm_results = Append(@, Collected(i))]
    /\ UNCHANGED <<tpc, call, providers, prompts, tasks, submitted, completed, snapshot>>
    /\ UNCHANGED <<auditVars, tview, mcall>>

\* Returning as soon as one future has been collected.
ReturnParallelEarly ==
    /\ tpc = "collect"
    /\ yielded # {}
    /\ tpc' = "returned"
    /\ UNCHANGED <<call, providers, prompts, tasks, submitted, completed, snapshot,
                   yielded, tresult>>
    /\ UNCHANGED <<auditVars, tview, mcall>>

\* The loop and the with block end; return result.
ReturnParallel ==
    /\ tpc = "collect"
    /\ yielded = 1..Len(providers)
    /\ tpc' = "returned"
    /\ UNCHANGED <<call, providers, prompts, tasks, submitted, completed, snapshot,
                   yielded, tresult>>
    /\ UNCHANGED <<auditVars, tview, mcall>>

\* The provider the sequential loop is at: the first whose task is not done.
CurrentLast ==
    LET open == {i \in 1..Len(tasks) : tasks[i].state # "done"}
    IN  IF open = {} THEN 0 ELSE CHOOSE i \in open : \A j \in open : i >= j

Current ==
    LET open == {i \in 1..Len(tasks) : tasks[i].state # "done"}
    IN  IF open = {} THEN 0 ELSE CHOOSE i \in open : \A j \in open : i <= j

\* "for provider in providers: llm_result = test_provider(provider)": one
\* query on the calling thread; an exception leaves test_brand_visibility.
SequentialQuery ==
    /\ tpc = "sequential"
    /\ Current # 0
    /\ tasks[Current].asked < Len(prompts)
    /\ tasks' = [tasks EXCEPT ![Current] = QueryStep(tasks[Current], providers[Current])]
    /\ tpc' = IF tasks'[Current].state = "raised" THEN "raised" ELSE tpc
    /\ UNCHANGED <<call, providers, prompts, submitted, completed, snapshot, yielded, tresult>>
    /\ UNCHANGED <<auditVars, tview, mcall>>

\* result.llm_results.append(llm_result)
SequentialAppend ==
    /\ tpc = "sequential"
    /\ Current # 0
    /\ tasks[Current].asked = Len(prompts)
    /\ tasks' = [tasks EXCEPT ![Current].state = "done"]
    /\ tresult' = [tresult EXCEPT !.llm_results = Append(@, tasks[Current].llm_result)]
    /\ UNCHANGED <<tpc, call, providers, prompts, submitted, completed, snapshot, yielded>>
    /\ UNCHANGED <<auditVars, tview, mcall>>

ReturnSequential ==
    /\ tpc = "sequential"
    /\ Current = 0
    /\ tpc' = "returned"
    /\ UNCHANGED <<call, providers, prompts, tasks, submitted, completed, snapshot,
                   yielded, tresult>>
    /\ UNCHANGED <<auditVars, tview, mcall>>

NoResult == AuditResult("", "", <<>>, None)

InitAudit ==
    /\ apc = "start"
    /\ site \in Sites
    /\ result = NoResult
    /\ checks = <<>>
    /\ requests = <<>>
    /\ calls = <<>>
    /\ view = NoView
    /\ TestIdle

NextAudit ==
    \/ \E outcome \in PrimaryOutcomes : Fetch(outcome)
    \/ RunLlmsTxt
    \/ RunStructuredData
    \/ RunMetaTags
    \/ RunContentStructure
    \/ RunTechnical
    \/ ReadResult

SpecAudit == InitAudit /\ [][NextAudit]_vars

\* ---------------------------------------------------------------------
\* test_brand_visibility as a state machine
\* ---------------------------------------------------------------------

MaxProviders == 2

\* Caller-supplied LLMProvider subclasses whose query raises.
CustomProviders ==
    {Provider("Custom", "custom-1", "raise"), Provider("Flaky", "flaky-1", "raise_late")}

ProviderPool ==
    {get_all_providers[1], get_all_providers[3],
     Provider("OpenAI", "gpt-4o-mini", "malformed"),
     Provider("Google", "gemini-2.0-flash", "status"),
     Provider("Anthropic", "claude-3-5-haiku-20241022", "unconfigured"),
     Provider("Perplexity", "sonar", "blank")}
    \cup CustomProviders

\* Lists of providers of the pool with distinct names, up to MaxProviders long.
ProviderLists ==
    {ps \in SeqsUpTo(ProviderPool, MaxProviders) :
        \A i, j \in 1..Len(ps) : i # j => ps[i].name # ps[j].name}

ConfiguredSets ==
    {names \in SUBSET {"OpenAI", "Anthropic", "Google", "Perplexity"} :
        Cardinality(names) <= MaxProviders}

Calls ==
    {[given |-> TRUE, providers |-> ps, configured |-> {}, parallel |-> par,
      brand |-> "Acme", industry |-> ip[1], product |-> ip[2]] :
        ps \in ProviderLists, par \in BOOLEAN,
        ip \in {<<None, None>>, <<"CRM", "Acme Cloud">>}}
    \cup
    {[given |-> FALSE, providers |-> <<>>, configured |-> names, parallel |-> par,
      brand |-> "Acme", industry |-> "CRM", product |-> None] :
        names \in ConfiguredSets, par \in BOOLEAN}

AuditIdle ==
    /\ apc = "idle"
    /\ site = BestSite
    /\ result = NoResult
    /\ checks = <<>>
    /\ requests = <<>>
    /\ calls = <<>>
    /\ view = NoView

InitTest ==
    /\ AuditIdle
    /\ tpc = "start"
    /\ call \in Calls
    /\ providers = <<>>
    /\ prompts = <<>>
    /\ tasks = <<>>
    /\ submitted = 0
    /\ completed = <<>>
    /\ snapshot = {}
    /\ yielded = {}
    /\ tresult = NoTestResult
    /\ tview = NoTestView
    /\ mcall = NoMention

NextTest ==
    \/ Start
    \/ Submit
    \/ \E i \in 1..Len(tasks) : TaskQuery(i)
    \/ \E i \in 1..Len(tasks) : TaskReturn(i)
    \/ StartCollect
    \/ \E i \in 1..Len(tasks) : Collect(i)
    \/ ReturnParallel
    \/ SequentialQuery
    \/ SequentialAppend
    \/ ReturnSequential

SpecTest == InitTest /\ [][NextTest]_vars

\* ---------------------------------------------------------------------
\* AuditResult.total_score and AuditResult.quick_wins on results of any
\* shape: the caller holds an AuditResult and reads the two properties.
\* ---------------------------------------------------------------------

MaxFindings == 6

\* max_score values of a check, and every score from 0 up to it.
MaxScores == {0, 3, 7, 25, 100}

ScoredChecks ==
    UNION {{CheckResult("check", s, m, <<>>) : s \in 0..m} : m \in MaxScores}

ScoredResults ==
    {AuditResult("https://example.com", "https://example.com", cs, None) :
        cs \in SeqsUpTo(ScoredChecks, 2)}

\* The kinds of finding a list is drawn from: severity, fix_hint, impact.
FindingKinds ==
    <<[severity |-> ERROR, fix_hint |-> "hint", impact |-> 1],
      [severity |-> WARNING, fix_hint |-> "hint", impact |-> 3],
      [severity |-> PASS, fix_hint |-> "hint", impact |-> 3],
      [severity |-> INFO, fix_hint |-> "hint", impact |-> 2],
      [severity |-> WARNING, fix_hint |-> None, impact |-> 3]>>

\* The i-th finding of a list of kinds; its message tells it from the others.
FindingAt(kinds, i) ==
    Finding("check", ToString(i), FindingKinds[kinds[i]].severity, {},
            FindingKinds[kinds[i]].fix_hint, FindingKinds[kinds[i]].impact)

\* Two checks holding the findings of the list, split in the middle.
ChecksOf(kinds) ==
    LET n == Len(kinds)
        h == n \div 2
    IN  <<CheckResult("first", 1, 2, [i \in 1..h |-> FindingAt(kinds, i)]),
          CheckResult("second", 1, 2, [i \in 1..(n - h) |-> FindingAt(kinds, h + i)])>>

FindingResults ==
    {AuditResult("https://example.com", "https://example.com", ChecksOf(kinds), None) :
        kinds \in SeqsUpTo(1..Len(FindingKinds), MaxFindings)}

InitResult ==
    /\ apc = "returned"
    /\ site = BestSite
    /\ \/ result \in ScoredResults
       \/ result \in FindingResults
    /\ checks = <<>>
    /\ requests = <<>>
    /\ calls = <<>>
    /\ view = NoView
    /\ TestIdle

NextResult == ReadResult

SpecResult == InitResult /\ [][NextResult]_vars

\* ---------------------------------------------------------------------
\* Properties of AuditResult (SpecResult)
\* ---------------------------------------------------------------------

Abs(n) == IF n < 0 THEN -n ELSE n

\* C1: for an AuditResult with a non-empty checks list, total_score is
\* 100 * sum(score) / sum(max_score) rounded to the nearest integer (either
\* neighbour on a tie), and 0 when the max_scores sum to 0.
C1_TotalScoreIsRounded ==
    (view.read /\ result.checks # <<>>) =>
        LET total     == SumOver(result.checks, "score")
            max_total == SumOver(result.checks, "max_score")
        IN  IF max_total = 0 THEN view.total_score = 0
            ELSE 2 * Abs(view.total_score * max_total - 100 * total) <= max_total

\* C7: quick_wins holds no PASS or INFO finding, no finding without a
\* fix_hint, and at most 5 findings.
C7_QuickWinsAreFixable ==
    view.read =>
        /\ Len(view.quick_wins) <= 5
        /\ \A i \in 1..Len(view.quick_wins) :
              /\ view.quick_wins[i].severity \notin {PASS, INFO}
              /\ view.quick_wins[i].fix_hint \notin {None, ""}

\* Five quick wins were read from a result that also holds a PASS or INFO
\* finding with a fix_hint.
C7_Witness ==
    /\ view.read
    /\ Len(view.quick_wins) = 5
    /\ \E i \in 1..Len(AllFindings(result.checks)) :
          /\ AllFindings(result.checks)[i].severity \in {PASS, INFO}
          /\ AllFindings(result.checks)[i].fix_hint = "hint"

\* The eligible findings of a result, in check order then finding order.
EligibleFindings(self) ==
    SelectSeq(AllFindings(self.checks),
              LAMBDA f : f.severity \in {WARNING, ERROR} /\ f.fix_hint \notin {None, ""})

\* The place of the i-th of the findings E in a stable sort by descending
\* impact: behind every finding of higher impact and every earlier finding
\* of the same impact.
StableRank(E, i) ==
    1 + Cardinality({j \in 1..Len(E) :
                        \/ E[j].impact > E[i].impact
                        \/ E[j].impact = E[i].impact /\ j < i})

\* C8: quick_wins is the first 5 of the eligible findings in stable order of
\* descending impact; no left-out eligible finding has a higher impact than
\* an included one.
C8_QuickWinsStableTopFive ==
    view.read =>
        LET E == EligibleFindings(result)
            n == Len(E)
            q == view.quick_wins
        IN  /\ Len(q) = IF n < 5 THEN n ELSE 5
            /\ \A i \in 1..n :
                  LET r == StableRank(E, i)
                  IN  IF r <= 5 THEN q[r] = E[i]
                      ELSE \A k \in 1..Len(q) : E[i].impact <= q[k].impact

\* More than 5 eligible findings, out of order, with a tie of impact among
\* the included ones and a finding left out.
C8_Witness ==
    /\ view.read
    /\ LET E == EligibleFindings(result)
       IN  /\ Len(E) > 5
           /\ \E i, j \in 1..Len(E) : i < j /\ E[i].impact < E[j].impact
    /\ \E i, j \in 1..5 :
          /\ i < j
          /\ view.quick_wins[i].impact = view.quick_wins[j].impact
          /\ view.quick_wins[i] # view.quick_wins[j]

\* ---------------------------------------------------------------------
\* Properties of audit_url (SpecAudit)
\* ---------------------------------------------------------------------

\* audit_url has returned its AuditResult.
AuditReturned == apc \in {"returned", "read"}

\* C2: a result returned by audit_url with a non-empty checks list has a
\* total_score from 0 to 100, whatever the evaluators saw.
C2_TotalScoreInRange ==
    (AuditReturned /\ result.checks # <<>>) =>
        /\ total_score(result) \in 0..100
        /\ view.read => view.total_score = total_score(result)

\* A returned result with five checks reads the full score, 100.
C2_Witness ==
    /\ view.read
    /\ Len(result.checks) = 5
    /\ view.total_score = 100

\* C3: when the primary fetch fails, the returned result has error set and
\* no checks, no evaluator was invoked and no auxiliary fetch was issued.
C3_FailedFetchStopsAudit ==
    (AuditReturned /\ requests[1].outcome # "ok") =>
        /\ result.error # None
        /\ result.checks = <<>>
        /\ calls = <<>>
        /\ Len(requests) = 1
        /\ requests[1].path = "/"

\* The primary fetch timed out and the caller read the result.
C3_Witness ==
    /\ apc = "read"
    /\ requests[1].outcome = "timeout"
    /\ result.error = "Timeout after 30.0s"

\* C4: once the primary fetch has succeeded, every evaluator returns a
\* CheckResult on every page, so audit_url returns five CheckResults and no
\* error.
C4_EvaluatorsNeverRaise ==
    (AuditReturned /\ requests[1].outcome = "ok") =>
        /\ result.error = None
        /\ Len(result.checks) = 5

\* The response an auxiliary fetch would have given had the file been
\* absent instead of the transport failing.
AsAbsent(resp) == IF resp.raised THEN NotFound ELSE resp

\* C5: with an auxiliary fetch failing in transport, check_llms_txt and
\* check_technical return the score they return when that file is absent.
C5_TransportFailureScoresAsAbsent ==
    (AuditReturned /\ Len(result.checks) = 5) =>
        /\ result.checks[1].score =
              check_llms_txt(AsAbsent(site.llms), AsAbsent(site.full)).score
        /\ result.checks[5].score =
              check_technical(site.soup, result.final_url,
                              AsAbsent(site.robots), AsAbsent(site.sitemap)).score

\* C6: after a successful primary fetch, audit_url returns the five
\* CheckResults llms.txt, Structured Data, Meta Tags, Content Structure,
\* Technical in this order, each evaluator invoked once and in this order.
C6_FiveChecksInOrder ==
    (AuditReturned /\ requests[1].outcome = "ok") =>
        /\ [i \in 1..Len(result.checks) |-> result.checks[i].name] =
              <<"llms.txt", "Structured Data", "Meta Tags", "Content Structure",
                "Technical">>
        /\ calls = <<"check_llms_txt", "check_structured_data", "check_meta_tags",
                     "check_content_structure", "check_technical">>

\* The CheckResults the evaluators have returned so far in this audit.
ReturnedChecks ==
    {checks[i] : i \in 1..Len(checks)} \cup {result.checks[i] : i \in 1..Len(result.checks)}

\* The max_score of each evaluator.
Ceiling(name) ==
    CASE name = "llms.txt" -> 25
      [] name = "Structured Data" -> 25
      [] name = "Meta Tags" -> 20
      [] name = "Content Structure" -> 20
      [] name = "Technical" -> 10

\* C19: every CheckResult an evaluator returns has 0 <= score <= max_score,
\* with max_score 25 (llms_txt), 25 (structured_data), 20 (meta_tags),
\* 20 (content_structure), 10 (technical).
C19_ScoreWithinMaxScore ==
    \A c \in ReturnedChecks :
        /\ c.max_score = Ceiling(c.name)
        /\ 0 <= c.score
        /\ c.score <= c.max_score

\* The five evaluators have returned, Structured Data and Technical at
\* their ceiling and Meta Tags at 0.
C19_Witness ==
    /\ AuditReturned
    /\ Len(result.checks) = 5
    /\ result.checks[2].score = 25
    /\ result.checks[3].score = 0
    /\ result.checks[5].score = 10

\* The JSON-LD block {"@type": "Organization", "name": "X", "url": "...",
\* "logo": "...", "sameAs": ["a", "b"], "contactPoint": {}}.
ExampleOrganization ==
    JsonObject(JsonType("string", <<"Organization">>), NoGraph,
               {"name", "url", "logo", "sameAs", "contactPoint"}, JsonSameAs("list", 2))

\* The page holds the example block alone and check_structured_data has
\* returned.
ExampleEvaluated ==
    /\ site.soup.scripts = <<ExampleOrganization>>
    /\ \E c \in ReturnedChecks : c.name = "Structured Data"

\* C20 as stated: the example block scores 5 + 10 + 5 + 5 = 25 of 25.
C20_ExampleScoresFull ==
    ExampleEvaluated =>
        \A c \in ReturnedChecks : c.name = "Structured Data" => c.score = 25

\* C20 amended: the example block has no "description", so it scores
\* 5 (base) + 10 (high-value) + 0 (incomplete Organization) + 5 (sameAs) =
\* 20 of 25, with an INFO finding listing the missing field.
C20_ExampleScoresTwenty ==
    ExampleEvaluated =>
        \A c \in ReturnedChecks :
            c.name = "Structured Data" =>
                /\ c.score = 20
                /\ c.max_score = 25
                /\ \E k \in 1..Len(c.findings) :
                       /\ c.findings[k].severity = INFO
                       /\ c.findings[k].details = {"description"}

\* The audit of a page holding the example block has returned its five
\* checks.
C20_Witness ==
    /\ ExampleEvaluated
    /\ AuditReturned
    /\ Len(result.checks) = 5

\* The number of non-empty lines of a body.
NonEmptyLines(lines) == Cardinality({i \in 1..Len(lines) : lines[i] # "blank"})

HasMessage(c, message) == \E k \in 1..Len(c.findings) : c.findings[k].message = message

\* C21: when /llms.txt is a text file, check_llms_txt awards the extra +5
\* with the PASS finding and no "very short" WARNING exactly when the body
\* has at least 3 non-empty lines, and emits the WARNING with no extra
\* points otherwise, blank lines not counting.
C21_ExtraPointsForThreeNonEmptyLines ==
    \A c \in ReturnedChecks :
        (c.name = "llms.txt" /\ IsTextFile(site.llms)) =>
            LET extra == c.score - 15 - (IF IsTextFile(site.full) THEN 5 ELSE 0)
            IN  IF NonEmptyLines(site.llms.body) >= 3
                THEN /\ extra = 5
                     /\ HasMessage(c, "llms.txt found with good content")
                     /\ ~HasMessage(c, "llms.txt exists but is very short")
                ELSE /\ extra = 0
                     /\ HasMessage(c, "llms.txt exists but is very short")
                     /\ ~HasMessage(c, "llms.txt found with good content")

\* The five evaluators run a second time, on the document and the responses
\* as they are now.
SecondRun ==
    <<Returned(check_llms_txt(site.llms, site.full)),
      check_structured_data(site.soup.scripts),
      Returned(check_meta_tags(site.soup)),
      Returned(check_content_structure(site.soup)),
      Returned(check_technical(site.soup, result.final_url, site.robots, site.sitemap))>>

\* Every evaluator that has returned in this audit returns the same
\* CheckResult when run again.
SecondRunAgrees ==
    /\ \A i \in 1..Len(checks) : SecondRun[i] = Returned(checks[i])
    /\ \A i \in 1..Len(result.checks) : SecondRun[i] = Returned(result.checks[i])

\* C23: running the same evaluator twice on the identical parsed document
\* yields identical CheckResults, and no step of the audit changes the
\* shared parsed document: check_content_structure strips only its own
\* copy, so the evaluators after it see the document unchanged.
C23_EvaluatorsArePure ==
    /\ []SecondRunAgrees
    /\ [][site' = site]_vars

\* The audit of a page with JSON-LD scripts and with elements inside
\* nav/footer/header/aside has returned its five checks.
C23_Witness ==
    /\ AuditReturned
    /\ Len(result.checks) = 5
    /\ site.soup.scripts # <<>>
    /\ site.soup.chrome # NoElements

\* The object, or an item nested in its @graph array, has a sameAs that is
\* a list of at least 2 entries.
RECURSIVE HasLinkedObject(_)
HasLinkedObject(data) ==
    /\ data.kind = "object"
    /\ \/ data.sameAs.kind = "list" /\ data.sameAs.len >= 2
       \/ /\ data.graph.kind = "list"
          /\ \E k \in 1..Len(data.graph.items) : HasLinkedObject(data.graph.items[k])

\* How many findings of the check carry the message.
MessageCount(c, message) ==
    Cardinality({k \in 1..Len(c.findings) : c.findings[k].message = message})

\* C27: on a page with JSON-LD, check_structured_data awards the +5 sameAs
\* points, once, whenever any JSON-LD object of the page, a top-level block
\* or an item nested inside an @graph array, has a sameAs that is a list
\* of at least 2 entries, and emits the INFO finding with no points
\* otherwise.
C27_SameAsOfAnyObject ==
    LET json_ld_data == extract_json_ld(site.soup.scripts)
        linked       == \E k \in 1..Len(json_ld_data) : HasLinkedObject(json_ld_data[k])
    IN  \A c \in ReturnedChecks :
            (c.name = "Structured Data" /\ json_ld_data # <<>>) =>
                LET others == 5 + (IF HasMessage(c, "High-value schemas found")
                                   THEN 10 ELSE 0)
                                + (IF HasMessage(c, "Organization schema has all recommended fields")
                                   THEN 5 ELSE 0)
                IN  IF linked
                    THEN /\ c.score = others + 5
                         /\ MessageCount(c, "Good entity linking via sameAs") = 1
                         /\ ~HasMessage(c, "Missing or minimal sameAs links")
                    ELSE /\ c.score = others
                         /\ MessageCount(c, "Missing or minimal sameAs links") = 1
                         /\ ~HasMessage(c, "Good entity linking via sameAs")

\* Some "user-agent: <crawler>" line of the body is followed within 200
\* characters by "disallow: /".
HasBlockingGroup(body, crawler) ==
    \E i \in 1..Len(body) :
        /\ body[i].t = "ua"
        /\ IsPrefix(crawler, body[i].agent)
        /\ \E j \in i..Len(body) :
               body[j].t = "dis" /\ Offset(body, j) + 11 <= Offset(body, i) + 200

\* What the robots.txt sub-check added to the Technical score.
RobotsPoints(c) ==
    c.score - (IF HasMessage(c, "HTTPS enabled") THEN 2 ELSE 0)
            - (IF HasMessage(c, "sitemap.xml found") THEN 2 ELSE 0)
            - (IF HasMessage(c, "Mobile viewport set") THEN 2 ELSE 0)
            - (IF HasMessage(c, "Language declared") THEN 1 ELSE 0)

\* C28: the robots.txt sub-check adds +3 with a PASS finding iff robots.txt
\* is present (status 200) and no crawler of the list has a "user-agent:
\* <crawler>" block followed within 200 characters by "disallow: /"; it
\* adds 0 with a WARNING listing exactly the blocked crawlers if there is
\* such a block; it adds +2 with an INFO finding if robots.txt is absent.
C28_RobotsSubCheck ==
    \A c \in ReturnedChecks :
        (c.name = "Technical" /\ ~site.robots.raised) =>
            LET blocked == {ai_crawlers[k] : k \in
                               {n \in 1..Len(ai_crawlers) :
                                   HasBlockingGroup(site.robots.body, ai_crawlers[n])}}
            IN  IF site.robots.status # 200
                THEN /\ RobotsPoints(c) = 2
                     /\ \E k \in 1..Len(c.findings) :
                            /\ c.findings[k].severity = INFO
                            /\ c.findings[k].message =
                                   "No robots.txt (all crawlers allowed by default)"
                ELSE IF blocked = {}
                THEN /\ RobotsPoints(c) = 3
                     /\ \E k \in 1..Len(c.findings) :
                            /\ c.findings[k].severity = PASS
                            /\ c.findings[k].message = "No AI crawler blocks detected"
                ELSE /\ RobotsPoints(c) = 0
                     /\ \E k \in 1..Len(c.findings) :
                            /\ c.findings[k].severity = WARNING
                            /\ c.findings[k].message = "AI crawlers blocked"
                            /\ c.findings[k].details = blocked

\* C29: every AuditResult audit_url returns has either error None and
\* exactly 5 checks, or error set and no checks; the list is never partly
\* filled, also when an evaluator raises after the primary fetch succeeded
\* and final_url was recorded.
C29_ChecksAllOrNone ==
    AuditReturned =>
        /\ \/ result.error = None /\ Len(result.checks) = 5
           \/ result.error # None /\ result.checks = <<>>
        /\ requests[1].outcome = "ok" => result.final_url = site.final_url

\* check_structured_data raised after check_llms_txt had returned: the
\* result carries the error, the final url and no checks.
C29_Witness ==
    /\ AuditReturned
    /\ requests[1].outcome = "ok"
    /\ calls = <<"check_llms_txt", "check_structured_data">>
    /\ result.error = "Error"
    /\ result.checks = <<>>
    /\ result.final_url = site.final_url

\* The findings the evaluators have returned so far in this audit.
ReturnedFindings ==
    UNION {{c.findings[k] : k \in 1..Len(c.findings)} : c \in ReturnedChecks}

\* The WARNING and ERROR findings of the returned result, in order.
Problems ==
    SelectSeq(AllFindings(result.checks), LAMBDA f : f.severity \in {WARNING, ERROR})

\* C30: every finding of the five evaluators with severity WARNING or
\* ERROR carries a non-empty fix_hint and every PASS finding carries none,
\* so on a result of audit_url the fix_hint filter of quick_wins drops no
\* WARNING/ERROR finding: quick_wins holds all of them, up to its limit of 5.
C30_ProblemsCarryFixHint ==
    /\ \A f \in ReturnedFindings :
           /\ f.severity \in {WARNING, ERROR} => f.fix_hint \notin {None, ""}
           /\ f.severity = PASS => f.fix_hint = None
    /\ view.read =>
           /\ Len(view.quick_wins) = (IF Len(Problems) < 5 THEN Len(Problems) ELSE 5)
           /\ \A k \in 1..Len(view.quick_wins) :
                  \E j \in 1..Len(Problems) : Problems[j] = view.quick_wins[k]

\* The caller read the quick wins of an audit with an ERROR, a WARNING and
\* a PASS finding and fewer than 5 problems: every problem is a quick win.
C30_Witness ==
    /\ view.read
    /\ Len(result.checks) = 5
    /\ \E f \in ReturnedFindings : f.severity = ERROR
    /\ \E f \in ReturnedFindings : f.severity = WARNING
    /\ \E f \in ReturnedFindings : f.severity = PASS
    /\ Len(Problems) \in 2..4
    /\ Len(view.quick_wins) = Len(Problems)

\* ---------------------------------------------------------------------
\* Properties of test_brand_visibility (SpecTest)
\* ---------------------------------------------------------------------

\* The provider's task raises on one of the prompts.
TaskRaises(provider) == \E k \in 1..Len(prompts) : QueryRaises(provider, k)

\* The LLMResult of a provider whose task runs through every prompt.
FullResult(provider) ==
    LLMResult(provider.name, provider.model,
              [k \in 1..Len(prompts) |-> query(provider, prompts[k].prompt, k)])

ParallelMode == call.parallel /\ Len(providers) > 1

\* C9: in parallel mode a provider task that raises becomes an LLMResult
\* with that provider's name and model and no responses, the run still
\* returns its TestResult, and every other provider's LLMResult is the one
\* it has when no task raises.
C9_ParallelRaiseIsContained ==
    ParallelMode =>
        /\ tpc # "raised"
        /\ tpc # "returned" => ENABLED NextTest
        /\ tpc = "returned" =>
              /\ Len(tresult.llm_results) = Len(providers)
              /\ \A i \in 1..Len(providers) :
                    \E j \in 1..Len(tresult.llm_results) :
                        tresult.llm_results[j] =
                            IF TaskRaises(providers[i])
                            THEN LLMResult(providers[i].name, providers[i].model, <<>>)
                            ELSE FullResult(providers[i])

\* A parallel run returned in which one task raised after its first answer
\* and another provider answered every prompt.
C9_Witness ==
    /\ ParallelMode
    /\ tpc = "returned"
    /\ \E i, j \in 1..Len(providers) :
          /\ tasks[i].state = "raised"
          /\ tasks[i].llm_result.responses # <<>>
          /\ tasks[j].state = "done"
          /\ Len(tasks[j].llm_result.responses) = Len(prompts)

\* C10: test_brand_visibility never propagates an exception to its caller,
\* in parallel mode, in sequential mode and with a single provider.
C10_NeverPropagates == tpc # "raised"

\* The names of the providers of the LLMResults, in the order of the list.
ResultNames == [j \in 1..Len(tresult.llm_results) |-> tresult.llm_results[j].provider]

\* C11: in parallel mode a finished provider's LLMResult is appended while
\* another provider is still running, and llm_results is in completion
\* order.
C11_ResultsInCompletionOrder ==
    ParallelMode =>
        /\ Len(ResultNames) <= Len(completed)
        /\ \A j \in 1..Len(ResultNames) : ResultNames[j] = providers[completed[j]].name

\* The prompts of a response list, in the order of the list.
PromptsOf(responses) == [k \in 1..Len(responses) |-> responses[k].prompt]

PromptSet == [k \in 1..Len(prompts) |-> prompts[k].prompt]

\* C12 as stated: every provider's LLMResult of a run holds one response
\* per prompt of the prompt set, in the order of the prompt set.
C12_OneResponsePerPrompt ==
    tpc = "returned" =>
        \A j \in 1..Len(tresult.llm_results) :
            PromptsOf(tresult.llm_results[j].responses) = PromptSet

\* C12, amended: a task issues its prompts serially and in order, so at
\* every moment its responses answer the first prompts of the prompt set in
\* order, and every provider whose task does not raise has an LLMResult with
\* one response per prompt in the order of the prompt set, in parallel and
\* in sequential mode; a task that raises in parallel mode has none.
C12_ResponsesFollowPrompts ==
    /\ \A i \in 1..Len(tasks) :
          LET responses == tasks[i].llm_result.responses
          IN  /\ Len(responses) =
                    IF tasks[i].state = "raised" THEN tasks[i].asked - 1 ELSE tasks[i].asked
              /\ PromptsOf(responses) = SubSeq(PromptSet, 1, Len(responses))
              /\ \A k \in 1..Len(responses) : responses[k].provider = providers[i].name
    /\ tpc = "returned" =>
          \A i \in 1..Len(providers) :
              \E j \in 1..Len(tresult.llm_results) :
                  /\ tresult.llm_results[j].provider = providers[i].name
                  /\ PromptsOf(tresult.llm_results[j].responses) =
                        IF TaskRaises(providers[i]) THEN <<>> ELSE PromptSet

\* A parallel run of two providers returned, both with every prompt
\* answered, the second provider collected first.
C12_Witness ==
    /\ ParallelMode
    /\ tpc = "returned"
    /\ Len(prompts) = 5
    /\ \A i \in 1..Len(tasks) : tasks[i].state = "done"
    /\ ResultNames[1] = providers[2].name
    /\ PromptsOf(tresult.llm_results[1].responses) = PromptSet

\* Every LLMResponse produced so far.
AllResponses ==
    UNION {SeqToSet(tasks[i].llm_result.responses) : i \in 1..Len(tasks)}
    \cup UNION {SeqToSet(tresult.llm_results[j].responses) :
                   j \in 1..Len(tresult.llm_results)}

\* C15: an LLMResponse with error set has mentions_brand false, an empty
\* response and no mention_context.
C15_ErrorResponsesAreEmpty ==
    \A r \in AllResponses :
        r.error # None =>
            /\ r.mentions_brand = FALSE
            /\ r.response = ""
            /\ r.mention_context = None

\* A run returned responses whose error is the empty string, and responses
\* without error that mention the brand.
C15_Witness ==
    /\ tpc = "returned"
    /\ \E r \in AllResponses : r.error = ""
    /\ \E r \in AllResponses : r.error = None /\ r.mentions_brand

BuiltIn == {"OpenAI", "Anthropic", "Google", "Perplexity"}

\* C16: query of the four providers never raises; a missing credential, a
\* transport error, a non-2xx status and a malformed envelope each give an
\* LLMResponse with error set; without the credential no network call is
\* made and latency_ms is 0.
C16_QueryNeverRaises ==
    \A i \in 1..Len(tasks) :
        providers[i].name \in BuiltIn =>
            /\ tasks[i].state # "raised"
            /\ Len(tasks[i].llm_result.responses) = tasks[i].asked
            /\ providers[i].behaviour \in Failures \cup {"unconfigured"} =>
                  \A k \in 1..tasks[i].asked :
                      tasks[i].llm_result.responses[k].error # None
            /\ providers[i].behaviour = "unconfigured" =>
                  /\ tasks[i].posts = 0
                  /\ \A k \in 1..tasks[i].asked :
                        tasks[i].llm_result.responses[k].latency_ms = 0

\* A run returned with a provider without credential and a provider whose
\* service answered with a malformed envelope, every prompt asked.
C16_Witness ==
    /\ tpc = "returned"
    /\ \E i, j \in 1..Len(tasks) :
          /\ providers[i].behaviour = "unconfigured"
          /\ providers[j].behaviour \in {"malformed", "status", "error"}
          /\ tasks[i].asked = Len(prompts)
          /\ tasks[j].asked = Len(prompts)
          /\ tasks[j].posts = Len(prompts)

\* The call selects no provider: none given and none configured, or an
\* empty list given.
NothingSelected ==
    \/ ~call.given /\ call.configured = {}
    \/ call.given /\ call.providers = <<>>

\* C17: with no provider selected test_brand_visibility returns a TestResult
\* with an empty llm_results, calls no query and builds and dispatches no
\* task.
C17_NoProviderNoWork ==
    NothingSelected =>
        /\ tpc \in {"start", "returned"}
        /\ tresult.llm_results = <<>>
        /\ tasks = <<>>
        /\ submitted = 0
        /\ completed = <<>>

\* The call without providers and without credentials has returned.
C17_Witness ==
    /\ tpc = "returned"
    /\ ~call.given
    /\ call.configured = {}
    /\ tresult = TestResult(call.brand, call.industry, <<>>)

\* C18: when parallel is false or one provider is selected, the providers
\* run one after another, no query of a provider before the last query of
\* the provider before it has returned, and llm_results lists their
\* LLMResults in the order of the providers list.
C18_SequentialInInputOrder ==
    (tpc \in {"sequential", "returned", "raised"} /\ ~ParallelMode) =>
        /\ \A i, j \in 1..Len(tasks) :
              (i < j /\ tasks[j].asked > 0) =>
                  tasks[i].asked = Len(prompts) /\ tasks[i].state = "done"
        /\ submitted = 0
        /\ ResultNames = [j \in 1..Len(ResultNames) |-> providers[j].name]
        /\ tpc = "returned" => Len(ResultNames) = Len(providers)

\* A sequential run of two providers returned both LLMResults.
C18_Witness ==
    /\ tpc = "returned"
    /\ ~call.parallel
    /\ Len(providers) = 2
    /\ Len(tresult.llm_results) = 2
    /\ tresult.llm_results[2].responses # <<>>

\* Every query call terminates and the threads of the run keep being
\* scheduled: a step of the run that can be taken is taken.
\* The runs about a brand without a product (four prompts).
InitTestFair == InitTest /\ call.product = None

SpecTestFair == InitTestFair /\ [][NextTest]_vars /\ WF_vars(NextTest)

\* The run is over: test_brand_visibility returned or raised.
Terminated == tpc \in {"returned", "raised"}

\* At the return for a non-empty provider list every task has finished and
\* llm_results holds exactly one LLMResult per selected provider.
OneResultPerProvider ==
    (tpc = "returned" /\ providers # <<>>) =>
        /\ \A i \in 1..Len(tasks) : tasks[i].state \in {"done", "raised"}
        /\ Len(tresult.llm_results) = Len(providers)
        /\ \A i \in 1..Len(providers) :
               Cardinality({j \in 1..Len(tresult.llm_results) :
                               tresult.llm_results[j].provider = providers[i].name}) = 1

\* C24: when test_brand_visibility returns for a non-empty provider list,
\* every dispatched task has finished and llm_results holds exactly one
\* LLMResult per selected provider, none missing and none duplicated, under
\* every interleaving and completion order; and the run terminates.
C24_AllTasksCollected ==
    /\ []OneResultPerProvider
    /\ <>Terminated

\* A parallel run returned whose second task finished before its first.
C24_Witness ==
    /\ tpc = "returned"
    /\ ParallelMode
    /\ completed = <<2, 1>>
    /\ Len(tresult.llm_results) = 2

\* The tasks a step writes to.
Written == {i \in 1..Len(tasks) : i <= Len(tasks') /\ tasks'[i] # tasks[i]}

\* C25: provider tasks share no mutable state: a step of a task writes only
\* to that task's own LLMResult and never to TestResult.llm_results; every
\* write to llm_results is the append of one result by the collecting
\* thread, which keeps what was appended before.
C25_TasksShareNoState ==
    [][/\ (tpc \in {"submit", "collect"} /\ tasks' # tasks) =>
             /\ tresult' = tresult
             /\ Cardinality(Written) = 1
             /\ \A i \in Written :
                    /\ tasks'[i].llm_result.provider = tasks[i].llm_result.provider
                    /\ tasks'[i].llm_result.model = tasks[i].llm_result.model
       /\ (tresult'.llm_results # tresult.llm_results) =>
             /\ tpc \in {"collect", "sequential"}
             /\ tpc = "collect" => tasks' = tasks
             /\ Len(tresult'.llm_results) = Len(tresult.llm_results) + 1
             /\ SubSeq(tresult'.llm_results, 1, Len(tresult.llm_results))
                    = tresult.llm_results]_vars

\* One result has been collected while another task is still asking.
C25_Witness ==
    /\ tpc = "collect"
    /\ Len(tresult.llm_results) = 1
    /\ \E i \in 1..Len(tasks) : tasks[i].state = "running" /\ tasks[i].asked > 0

\* ---------------------------------------------------------------------
\* One call of either entry point: audit_url or test_brand_visibility.
\* ---------------------------------------------------------------------

InitRun == InitAudit \/ InitTest

NextRun == NextAudit \/ NextTest

SpecRun == InitRun /\ [][NextRun]_vars

\* How many GETs of the audit asked for the path.
Gets(path) == Cardinality({k \in 1..Len(requests) : requests[k].path = path})

AuxiliaryPaths == {"/llms.txt", "/llms-full.txt", "/robots.txt", "/sitemap.xml"}

\* Within one audit_url call the primary URL is requested by exactly one
\* GET and each auxiliary URL by at most one.
NoFetchRetried ==
    /\ apc \notin {"idle", "start"} => Gets("/") = 1
    /\ Gets("/") <= 1
    /\ \A path \in AuxiliaryPaths : Gets(path) <= 1
    /\ \A k \in 1..Len(requests) : requests[k].path \in AuxiliaryPaths \cup {"/"}

\* The k-th query of a task is the one for the k-th prompt, and a query
\* posts at most once.
NoQueryRetried ==
    \A i \in 1..Len(tasks) :
        /\ tasks[i].asked <= Len(prompts)
        /\ tasks[i].posts <= tasks[i].asked
        /\ Len(tasks[i].llm_result.responses) <= tasks[i].asked
        /\ \A k \in 1..Len(tasks[i].llm_result.responses) :
               tasks[i].llm_result.responses[k].prompt = prompts[k].prompt

\* C26 as stated: nothing is retried, and in a returned run query was
\* called exactly once per (provider, prompt) pair.
C26_ExactlyOncePerPair ==
    /\ NoFetchRetried
    /\ NoQueryRetried
    /\ tpc = "returned" => \A i \in 1..Len(tasks) : tasks[i].asked = Len(prompts)

\* C26 amended: nothing is retried; query is called at most once per
\* (provider, prompt) pair, and exactly once, whether or not it failed, for
\* every provider whose task did not raise: a task whose query raised asks
\* none of the prompts after that one.
C26_NothingRetried ==
    /\ NoFetchRetried
    /\ NoQueryRetried
    /\ tpc = "returned" =>
           \A i \in 1..Len(tasks) :
               IF tasks[i].state = "raised"
               THEN /\ TaskRaises(providers[i])
                    /\ QueryRaises(providers[i], tasks[i].asked)
               ELSE /\ tasks[i].asked = Len(prompts)
                    /\ Len(tasks[i].llm_result.responses) = Len(prompts)

\* A run returned in which a built-in provider failed on every prompt and
\* still asked, and posted, each of them once.
C26_Witness ==
    /\ tpc = "returned"
    /\ \E i \in 1..Len(tasks) :
          /\ providers[i].behaviour = "error"
          /\ tasks[i].asked = Len(prompts)
          /\ tasks[i].posts = Len(prompts)
          /\ \A k \in 1..Len(prompts) : tasks[i].llm_result.responses[k].error # None

\* ---------------------------------------------------------------------
\* LLMResult.error_count and TestResult.overall_visibility on results of any
\* shape: the caller holds a TestResult and reads the properties.
\* ---------------------------------------------------------------------

MaxResponses == 2

\* What a response of a list is: an answer with or without the brand, a
\* failure with a message, a failure whose message is the empty string.
ResponseKinds == {"mention", "silent", "error", "blank"}

ProviderNames == {"OpenAI", "Google", "Anthropic", "Perplexity", "Custom"}

\* The LLMResult of a provider whose queries went as the kinds say.
ResultOf(name, kinds) ==
    LLMResult(name, "model",
              [k \in 1..Len(kinds) |-> query(Provider(name, "model", kinds[k]), "prompt", k)])

LLMResults ==
    {ResultOf(name, kinds) : name \in ProviderNames,
                             kinds \in SeqsUpTo(ResponseKinds, MaxResponses)}

\* The results an LLMResult is combined with: Google at rate 50, Anthropic
\* with every response failed, a custom provider at rate 100.
Companions ==
    {ResultOf("Google", <<"mention", "silent">>),
     ResultOf("Anthropic", <<"error", "error">>),
     ResultOf("Custom", <<"mention">>)}

TestResults ==
    {TestResult("Acme", None, <<>>)}
    \cup {TestResult("Acme", None, <<a>>) : a \in LLMResults}
    \cup {TestResult("Acme", None, <<a, b>>) : a \in LLMResults, b \in Companions}

\* The caller reads overall_visibility and every error_count.
ReadTestResult ==
    /\ tpc = "returned"
    /\ ~tview.read
    /\ tview' = [read |-> TRUE,
                 overall_visibility |-> overall_visibility(tresult),
                 error_counts |-> [j \in 1..Len(tresult.llm_results) |->
                                      error_count(tresult.llm_results[j])]]
    /\ UNCHANGED <<tpc, call, providers, prompts, tasks, submitted, completed, snapshot,
                   yielded, tresult, mcall>>
    /\ UNCHANGED auditVars

InitVisibility ==
    /\ AuditIdle
    /\ tpc = "returned"
    /\ call = [given |-> TRUE, providers |-> <<>>, configured |-> {}, parallel |-> FALSE,
               brand |-> "Acme", industry |-> None, product |-> None]
    /\ providers = <<>>
    /\ prompts = <<>>
    /\ tasks = <<>>
    /\ submitted = 0
    /\ completed = <<>>
    /\ snapshot = {}
    /\ yielded = {}
    /\ tresult \in TestResults
    /\ tview = NoTestView
    /\ mcall = NoMention

NextVisibility == ReadTestResult

SpecVisibility == InitVisibility /\ [][NextVisibility]_vars

\* The responses of an LLMResult whose error is set.
Errored(r) == {k \in 1..Len(r.responses) : r.responses[k].error # None}

\* C14: error_count is the number of responses whose error is set
\* (non-null), whatever the text of the error, the empty string included.
C14_ErrorCountCountsSetErrors ==
    tview.read =>
        \A j \in 1..Len(tresult.llm_results) :
            tview.error_counts[j] = Cardinality(Errored(tresult.llm_results[j]))

\* The providers overall_visibility is to include: those with a response
\* that did not error.
Included ==
    {j \in 1..Len(tresult.llm_results) :
        Cardinality(Errored(tresult.llm_results[j])) < Len(tresult.llm_results[j].responses)}

\* The sum over the results j in S of f[j].
RECURSIVE SumOf(_, _)
SumOf(S, f) ==
    IF S = {} THEN 0
    ELSE LET j == CHOOSE x \in S : TRUE IN f[j] + SumOf(S \ {j}, f)

\* The number of responses of result j that mention the brand.
Mentions(j) ==
    Cardinality({k \in 1..Len(tresult.llm_results[j].responses) :
                    tresult.llm_results[j].responses[k].mentions_brand})

\* The product of the response counts of the included results other than j.
RECURSIVE OtherLens(_, _)
OtherLens(S, j) ==
    IF S \ {j} = {} THEN 1
    ELSE LET i == CHOOSE x \in S \ {j} : TRUE
         IN  Len(tresult.llm_results[i].responses) * OtherLens(S \ {i}, j)

\* C13: overall_visibility is the mean of mention_rate over the included
\* providers weighted 3 (OpenAI), 2 (Google), 2 (Perplexity), 1 (Anthropic)
\* and 1 (others); a provider whose every response errored is left out; 0.0
\* when none is included.  With rates m_j * 100 / n_j the mean is
\* sum(w_j * m_j * 100 * prod(n_i, i # j)) / (prod(n_i) * sum(w_j)).
C13_WeightedMeanOfIncluded ==
    tview.read =>
        LET w    == [j \in Included |->
                        CASE tresult.llm_results[j].provider = "OpenAI" -> 3
                          [] tresult.llm_results[j].provider \in {"Google", "Perplexity"} -> 2
                          [] OTHER -> 1]
            term == [j \in Included |-> w[j] * Mentions(j) * 100 * OtherLens(Included, j)]
            num     == SumOf(Included, term)
            den     == OtherLens(Included, 0) * SumOf(Included, w)
            v       == tview.overall_visibility
        IN  IF Included = {} THEN v.num = 0
            ELSE v.num * den = num * v.den

\* ---------------------------------------------------------------------
\* _check_mention on texts of any shape: a provider calls it on the answer
\* it received.
\* ---------------------------------------------------------------------

\* How far the lengths around the match stray from the window's edges.
PadSpan == 1

Filler(n) == [i \in 1..n |-> "x"]

\* The answers: filler, a passage, filler.
Passages ==
    {<<"a", "c">>, <<"A", "c">>, <<"a", " ", "c">>, <<"a", "-", "c">>, <<"y">>,
     <<"U+0130", "a", "c">>}

LeftPads == {0} \cup ((ContextBefore - PadSpan)..(ContextBefore + PadSpan))

RightPads == {0} \cup ((ContextAfter - PadSpan - 2)..(ContextAfter + PadSpan))

Texts == {Filler(l) \o p \o Filler(r) : l \in LeftPads, p \in Passages, r \in RightPads}

Brands == {<<"A", "c">>, <<"A", " ", "c">>, <<"a", "-", "c">>, <<"A", "-", " ", "c">>, <<>>}

\* mentions, context = self._check_mention(response_text, brand)
CheckMention ==
    /\ ~mcall.done
    /\ mcall' = [mcall EXCEPT !.done = TRUE, !.result = check_mention(mcall.text, mcall.brand)]
    /\ UNCHANGED <<tpc, call, providers, prompts, tasks, submitted, completed, snapshot,
                   yielded, tresult, tview>>
    /\ UNCHANGED auditVars

InitMention ==
    /\ AuditIdle
    /\ tpc = "idle"
    /\ call = [given |-> FALSE, providers |-> <<>>, configured |-> {}, parallel |-> FALSE,
               brand |-> "", industry |-> None, product |-> None]
    /\ providers = <<>>
    /\ prompts = <<>>
    /\ tasks = <<>>
    /\ submitted = 0
    /\ completed = <<>>
    /\ snapshot = {}
    /\ yielded = {}
    /\ tresult = NoTestResult
    /\ tview = NoTestView
    /\ \E t \in Texts, b \in Brands :
          mcall = [text |-> t, brand |-> b, done |-> FALSE,
                   result |-> [mentions |-> FALSE, context |-> None]]

NextMention == CheckMention

SpecMention == InitMention /\ [][NextMention]_vars

\* Where the named variant starts in the lower-cased text, -1 if nowhere.
MatchStart(variant) == Find(Lower(mcall.text), variant)

\* The variants of the brand the detection looks for.
BrandVariants ==
    {Lower(mcall.brand), Remove(Lower(mcall.brand), " "), Remove(Lower(mcall.brand), "-")}

\* C22: the detection returns (true, context) iff the lower-cased brand, or
\* the brand without spaces, or the brand without hyphens, occurs in the
\* lower-cased text; the context is the text from 50 characters before the
\* match start to 100 characters after the match start, with "..." in front
\* only if cut on the left and behind only if cut on the right; otherwise
\* it returns (false, None).
C22_MentionContextWindow ==
    mcall.done =>
        LET found == {v \in BrandVariants : MatchStart(v) # 0 - 1}
        IN  IF found = {}
            THEN mcall.result = [mentions |-> FALSE, context |-> None]
            ELSE /\ mcall.result.mentions
                 /\ \E v \in found :
                       LET idx   == MatchStart(v)
                           start == IF idx > 50 THEN idx - 50 ELSE 0
                           end   == IF idx + 100 < Len(mcall.text)
                                    THEN idx + 100 ELSE Len(mcall.text)
                       IN  mcall.result.context =
                               (IF start > 0 THEN <<".", ".", ".">> ELSE <<>>)
                               \o Slice(mcall.text, start, end)
                               \o (IF end < Len(mcall.text) THEN <<".", ".", ".">> ELSE <<>>)

====
